---- MODULE Spec2Model ----
(***************************************************************************)
(* A model of utServer: the signed-URL protocol (lib/crypto.ts,            *)
(* lib/utils.ts, storage/index.ts), the two access guards                   *)
(* (lib/middleware.ts) and the file lifecycle driven by the HTTP handlers   *)
(* of the server (the ingest, management and CDN routes).                   *)
(*                                                                          *)
(* JavaScript strings are sequences of one-character strings, so that the   *)
(* URL parser, the form-urlencoded codec, parseInt and the hex codec are    *)
(* modelled by what they do to characters.                                  *)
(***************************************************************************)
EXTENDS Integers, Sequences, FiniteSets, Bags, TLC

NULL == "null"

(***************************************************************************)
(* Characters                                                               *)
(***************************************************************************)

\* The printable ASCII characters, code 32 first ("BT" is the backtick, code 96).
Printable ==
    << " ", "!", "\"", "#", "$", "%", "&", "'", "(", ")", "*", "+", ",", "-", ".", "/",
       "0", "1", "2", "3", "4", "5", "6", "7", "8", "9", ":", ";", "<", "=", ">", "?",
       "@", "A", "B", "C", "D", "E", "F", "G", "H", "I", "J", "K", "L", "M", "N", "O",
       "P", "Q", "R", "S", "T", "U", "V", "W", "X", "Y", "Z", "[", "\\", "]", "^", "_",
       "BT", "a", "b", "c", "d", "e", "f", "g", "h", "i", "j", "k", "l", "m", "n", "o",
       "p", "q", "r", "s", "t", "u", "v", "w", "x", "y", "z", "{", "|", "}", "~" >>

\* A byte that is no printable ASCII character, as one opaque character.
NonPrintable == "NP"

CharCode(c) ==
    IF c = NonPrintable THEN 0
    ELSE 31 + (CHOOSE i \in 1..Len(Printable) : Printable[i] = c)

CharOf(b) ==
    IF b >= 32 /\ b <= 126 THEN Printable[b - 31] ELSE NonPrintable

IsDigit(c) == CharCode(c) >= 48 /\ CharCode(c) <= 57

IsUpper(c) == CharCode(c) >= 65 /\ CharCode(c) <= 90

IsLower(c) == CharCode(c) >= 97 /\ CharCode(c) <= 122

IsAlpha(c) == IsUpper(c) \/ IsLower(c)

IsAlnum(c) == IsAlpha(c) \/ IsDigit(c)

ToLowerChar(c) == IF IsUpper(c) THEN CharOf(CharCode(c) + 32) ELSE c

IsHexDigit(c) ==
    \/ IsDigit(c)
    \/ (CharCode(c) >= 97 /\ CharCode(c) <= 102)
    \/ (CharCode(c) >= 65 /\ CharCode(c) <= 70)

HexVal(c) ==
    IF IsDigit(c) THEN CharCode(c) - 48
    ELSE IF IsLower(c) THEN CharCode(c) - 87
    ELSE CharCode(c) - 55

LowerHexDigits ==
    << "0", "1", "2", "3", "4", "5", "6", "7", "8", "9", "a", "b", "c", "d", "e", "f" >>

UpperHexDigits ==
    << "0", "1", "2", "3", "4", "5", "6", "7", "8", "9", "A", "B", "C", "D", "E", "F" >>

(***************************************************************************)
(* String operations of the JavaScript runtime                              *)
(***************************************************************************)

ToLowerCase(s) == [i \in 1..Len(s) |-> ToLowerChar(s[i])]

\* s.startsWith(p)
StartsWith(s, p) == Len(p) <= Len(s) /\ SubSeq(s, 1, Len(p)) = p

\* 1-based index of the first c in s, 0 when there is none (s.indexOf(c) + 1).
IndexOf(s, c) ==
    IF \E i \in 1..Len(s) : s[i] = c
    THEN CHOOSE i \in 1..Len(s) : s[i] = c /\ \A j \in 1..(i - 1) : s[j] # c
    ELSE 0

\* 1-based index of the last c in s, 0 when there is none.
LastIndexOf(s, c) ==
    IF \E i \in 1..Len(s) : s[i] = c
    THEN CHOOSE i \in 1..Len(s) : s[i] = c /\ \A j \in (i + 1)..Len(s) : s[j] # c
    ELSE 0

\* s.includes(c)
Includes(s, c) == IndexOf(s, c) # 0

\* s.split(c).pop(): what follows the last c (all of s when there is none).
SplitPop(s, c) == SubSeq(s, LastIndexOf(s, c) + 1, Len(s))

\* s from position i (1-based) to its end.
From(s, i) == SubSeq(s, i, Len(s))

\* The number of blanks s starts with.
RECURSIVE LeadingBlanks(_)
LeadingBlanks(s) ==
    IF s = << >> \/ Head(s) # " " THEN 0 ELSE 1 + LeadingBlanks(Tail(s))

\* The number of decimal digits s starts with.
RECURSIVE LeadingDigits(_)
LeadingDigits(s) ==
    IF s = << >> \/ ~IsDigit(Head(s)) THEN 0 ELSE 1 + LeadingDigits(Tail(s))

\* The value of a sequence of decimal digits.
RECURSIVE DigitsValue(_)
DigitsValue(s) ==
    IF s = << >> THEN 0
    ELSE 10 * DigitsValue(SubSeq(s, 1, Len(s) - 1)) + (CharCode(s[Len(s)]) - 48)

NaN == [nan |-> TRUE, val |-> 0]

\* parseInt(s, 10): leading blanks are skipped, a sign is read, then the longest
\* run of decimal digits; NaN when that run is empty. What follows the digits is
\* ignored.
ParseInt(s) ==
    LET blanks == LeadingBlanks(s)
        t == From(s, blanks + 1)
        neg == t # << >> /\ t[1] = "-"
        signed == t # << >> /\ t[1] \in {"-", "+"}
        u == IF signed THEN Tail(t) ELSE t
        n == LeadingDigits(u)
    IN  IF n = 0 THEN NaN
        ELSE [nan |-> FALSE,
              val |-> (IF neg THEN -1 ELSE 1) * DigitsValue(SubSeq(u, 1, n))]

\* Number.prototype.toString() of a non-negative integer.
RECURSIVE NumberToString(_)
NumberToString(n) ==
    IF n < 10 THEN << CharOf(48 + n) >>
    ELSE Append(NumberToString(n \div 10), CharOf(48 + (n % 10)))

(***************************************************************************)
(* Hex codec and HMAC                                                       *)
(***************************************************************************)

\* toHex: two lower-case hex digits per byte.
RECURSIVE toHex(_)
toHex(bytes) ==
    IF bytes = << >> THEN << >>
    ELSE << LowerHexDigits[(Head(bytes) \div 16) + 1],
            LowerHexDigits[(Head(bytes) % 16) + 1] >> \o toHex(Tail(bytes))

\* Buffer.from(s, "hex"): pairs of hex digits are decoded, in either case, up to
\* the first pair that is not two hex digits; a trailing single character is
\* dropped. It never throws.
RECURSIVE BufferFromHex(_)
BufferFromHex(s) ==
    IF Len(s) < 2 \/ ~IsHexDigit(s[1]) \/ ~IsHexDigit(s[2]) THEN << >>
    ELSE << 16 * HexVal(s[1]) + HexVal(s[2]) >> \o BufferFromHex(From(s, 3))

\* b^e modulo m, by squaring (every intermediate value fits 32 bits when
\* m < 46341).
RECURSIVE PowMod(_, _, _)
PowMod(b, e, m) ==
    IF e = 0 THEN 1
    ELSE LET r == PowMod(b, e \div 2, m)
         IN  IF e % 2 = 0 THEN (r * r) % m ELSE (((r * r) % m) * b) % m

\* The polynomial hash of the characters of s in base b, modulo m: the hash of a
\* concatenation from the hashes of its halves.
RECURSIVE PolyHash(_, _, _)
PolyHash(s, b, m) ==
    IF s = << >> THEN 0
    ELSE IF Len(s) = 1 THEN CharCode(s[1]) % m
    ELSE LET half == Len(s) \div 2
             right == SubSeq(s, half + 1, Len(s))
         IN  (PolyHash(SubSeq(s, 1, half), b, m) * PowMod(b, Len(right), m)
              + PolyHash(right, b, m)) % m

\* The four bytes of two 16-bit hashes.
DigestBytes(h1, h2) == << h1 \div 256, h1 % 256, h2 \div 256, h2 % 256 >>

KeyedHashes(message) ==
    DigestBytes(PolyHash(message, 127, 46337), PolyHash(message, 131, 46327))

\* A keyed hash of the query of the payload alone: what is before the "?" of the
\* URL is not signed.
HmacOfQuery(secret, payload) ==
    KeyedHashes(<< "#" >> \o secret \o << NonPrintable >>
                \o (IF IndexOf(payload, "?") = 0 THEN payload
                    ELSE From(payload, IndexOf(payload, "?"))))

\* HMAC-SHA256(secret, payload) as a keyed hash: a stand-in of four bytes (two
\* polynomial hashes modulo two primes, of the secret and the payload) that, like
\* the HMAC, gives different digests for the different (secret, payload) pairs
\* the model meets.
HmacSha256(secret, payload) ==
    KeyedHashes(<< "#" >> \o secret \o << NonPrintable >> \o payload)

(***************************************************************************)
(* URLs: the URL class and its URLSearchParams                              *)
(***************************************************************************)

\* An absent string (null or undefined), told apart from every string.
Null == << "null" >>

\* !s of JavaScript for a string or null: null and the empty string are falsy.
Falsy(s) == s = Null \/ s = << >>

\* The position of the first character of s that is in cs, Len(s) + 1 when
\* there is none.
FirstOf(s, cs) ==
    IF \E i \in 1..Len(s) : s[i] \in cs
    THEN CHOOSE i \in 1..Len(s) : s[i] \in cs /\ \A j \in 1..(i - 1) : s[j] \notin cs
    ELSE Len(s) + 1

\* The pieces of s between the occurrences of c (s.split(c)); i is the index of
\* the first c.
RECURSIVE SplitAt(_, _, _)
SplitAt(s, c, i) ==
    IF i = 0 THEN << s >>
    ELSE << SubSeq(s, 1, i - 1) >>
         \o SplitAt(From(s, i + 1), c, IndexOf(From(s, i + 1), c))

Split(s, c) == SplitAt(s, c, IndexOf(s, c))

\* The concatenation of the sequences of list.
RECURSIVE Concat(_)
Concat(list) ==
    IF list = << >> THEN << >>
    ELSE IF Len(list) = 1 THEN list[1]
    ELSE LET half == Len(list) \div 2
         IN  Concat(SubSeq(list, 1, half)) \o Concat(SubSeq(list, half + 1, Len(list)))

\* The concatenation of the strings of list, with sep between them.
Join(list, sep) ==
    Concat([i \in 1..Len(list) |-> IF i = 1 THEN list[i] ELSE sep \o list[i]])

\* The positions of s where an escape starts: "%" and two hex digits, in either
\* case. (The two characters after the "%" are hex digits, so no escape starts
\* inside another.)
EscapeStarts(s) ==
    {i \in 1..Len(s) : /\ s[i] = "%"
                       /\ i + 2 <= Len(s)
                       /\ IsHexDigit(s[i + 1])
                       /\ IsHexDigit(s[i + 2])}

\* s with the escape that starts at each position of kept that is in escape
\* replaced by its byte.
DecodeKept(s, escape, kept) ==
    [k \in 1..Len(kept) |->
        IF kept[k] \in escape
        THEN CharOf(16 * HexVal(s[kept[k] + 1]) + HexVal(s[kept[k] + 2]))
        ELSE s[kept[k]]]

DecodeEscapes(s, escape) ==
    DecodeKept(s, escape,
               SelectSeq([i \in 1..Len(s) |-> i],
                         LAMBDA i : (i - 1) \notin escape /\ (i - 2) \notin escape))

\* Percent-decoding: an escape is one byte; any other "%" stays.
PercentDecode(s) == DecodeEscapes(s, EscapeStarts(s))

\* The application/x-www-form-urlencoded byte serializer.
FormEncode(s) ==
    Concat([i \in 1..Len(s) |->
              IF IsAlnum(s[i]) \/ s[i] \in {"*", "-", ".", "_"} THEN << s[i] >>
              ELSE IF s[i] = " " THEN << "+" >>
              ELSE << "%", UpperHexDigits[(CharCode(s[i]) \div 16) + 1],
                      UpperHexDigits[(CharCode(s[i]) % 16) + 1] >>])

PlusToSpace(s) == [i \in 1..Len(s) |-> IF s[i] = "+" THEN " " ELSE s[i]]

\* One name=value piece of a query string, decoded; eq is the index of its
\* first "=".
ParsePairAt(piece, eq) ==
    IF eq = 0 THEN << PercentDecode(PlusToSpace(piece)), << >> >>
    ELSE << PercentDecode(PlusToSpace(SubSeq(piece, 1, eq - 1))),
            PercentDecode(PlusToSpace(From(piece, eq + 1))) >>

ParsePair(piece) == ParsePairAt(piece, IndexOf(piece, "="))

ParsePieces(pieces) == [i \in 1..Len(pieces) |-> ParsePair(pieces[i])]

\* The application/x-www-form-urlencoded parser: the list of (name, value)
\* pairs of a query string, in order; empty pieces are skipped.
ParseQuery(query) ==
    IF query = Null THEN << >>
    ELSE ParsePieces(SelectSeq(Split(query, "&"), LAMBDA x : x # << >>))

\* The application/x-www-form-urlencoded serializer.
SerializeParams(list) ==
    Join([i \in 1..Len(list) |-> FormEncode(list[i][1]) \o << "=" >> \o FormEncode(list[i][2])],
         << "&" >>)

http == << "h", "t", "t", "p" >>

https == << "h", "t", "t", "p", "s" >>

IsSchemeChar(c) == IsAlnum(c) \/ c \in {"+", "-", "."}

ForbiddenHostChars ==
    {" ", "#", "/", ":", "<", ">", "?", "@", "[", "\\", "]", "^", "|", "%", NonPrintable}

RECURSIVE LeadingSlashes(_)
LeadingSlashes(s) ==
    IF s = << >> \/ Head(s) \notin {"/", "\\"} THEN 0 ELSE 1 + LeadingSlashes(Tail(s))

\* The path of an http(s) URL as the parser keeps it: a "\" is a "/".
Slashed(path) == [i \in 1..Len(path) |-> IF path[i] = "\\" THEN "/" ELSE path[i]]

InvalidUrl ==
    [ok |-> FALSE, scheme |-> << >>, host |-> Null, port |-> Null, path |-> << >>,
     query |-> Null, fragment |-> Null]

\* The URL of a scheme, a host and a port as written, and the rest.
MakeUrl(scheme, special, host, rawPort, defaultPort, path, query, fragment) ==
    IF \/ (special /\ host = << >>)
       \/ \E i \in 1..Len(host) : host[i] \in ForbiddenHostChars
       \/ \E i \in 1..Len(rawPort) : ~IsDigit(rawPort[i])
    THEN InvalidUrl
    ELSE [ok |-> TRUE, scheme |-> scheme, host |-> host,
          port |-> IF rawPort = << >> \/ rawPort = defaultPort THEN Null ELSE rawPort,
          path |-> IF special /\ path = << >> THEN << "/" >>
                   ELSE IF special THEN Slashed(path) ELSE path,
          query |-> query, fragment |-> fragment]

\* host[:port] of a URL, colon the index of the first ":" of the authority;
\* credentials are outside the model. The host of an http(s) URL is lower-cased
\* and its default port is dropped.
ParseAuthorityAt(scheme, special, authority, colon, path, query, fragment) ==
    MakeUrl(scheme, special,
            IF colon = 0 THEN (IF special THEN ToLowerCase(authority) ELSE authority)
            ELSE IF special THEN ToLowerCase(SubSeq(authority, 1, colon - 1))
            ELSE SubSeq(authority, 1, colon - 1),
            IF colon = 0 THEN << >> ELSE From(authority, colon + 1),
            IF scheme = http THEN << "8", "0" >>
            ELSE IF scheme = https THEN << "4", "4", "3" >> ELSE Null,
            path, query, fragment)

ParseAuthority(scheme, special, authority, path, query, fragment) ==
    ParseAuthorityAt(scheme, special, authority, IndexOf(authority, ":"), path, query,
                     fragment)

\* What follows the slashes of the hierarchical part: the authority up to
\* hostEnd, then the path.
ParseAfterSlashes(scheme, special, afterSlashes, hostEnd, query, fragment) ==
    ParseAuthority(scheme, special, SubSeq(afterSlashes, 1, hostEnd - 1),
                   From(afterSlashes, hostEnd), query, fragment)

\* The hierarchical part of a URL, skip the number of slashes it starts with
\* that lead to the authority.
ParseHierAt(scheme, special, hier, skip, query, fragment) ==
    IF ~special /\ skip = 0
    THEN [ok |-> TRUE, scheme |-> scheme, host |-> Null, port |-> Null,
          path |-> hier, query |-> query, fragment |-> fragment]
    ELSE ParseAfterSlashes(scheme, special, From(hier, skip + 1),
                           FirstOf(From(hier, skip + 1),
                                   IF special THEN {"/", "\\"} ELSE {"/"}),
                           query, fragment)

ParseHier(scheme, special, hier, query, fragment) ==
    ParseHierAt(scheme, special, hier,
                IF special THEN LeadingSlashes(hier)
                ELSE IF StartsWith(hier, << "/", "/" >>) THEN 2 ELSE 0,
                query, fragment)

\* What is before the fragment, qAt the index of its first "?".
ParseMainAt(scheme, main, qAt, fragment) ==
    ParseHier(scheme, scheme \in {http, https}, SubSeq(main, 1, qAt - 1),
              IF qAt > Len(main) THEN Null ELSE From(main, qAt + 1), fragment)

\* What follows the scheme, hashAt the index of its first "#".
ParseRestAt(scheme, rest, hashAt) ==
    ParseMainAt(scheme, SubSeq(rest, 1, hashAt - 1),
                FirstOf(SubSeq(rest, 1, hashAt - 1), {"?"}),
                IF hashAt > Len(rest) THEN Null ELSE From(rest, hashAt + 1))

ParseRest(scheme, rest) == ParseRestAt(scheme, rest, FirstOf(rest, {"#"}))

\* A URL string, colon the index of its first ":".
ParseUrlAt(s, colon) ==
    IF ~(/\ colon > 1
         /\ IsAlpha(s[1])
         /\ \A i \in 1..(colon - 1) : IsSchemeChar(s[i]))
    THEN InvalidUrl
    ELSE ParseRest(ToLowerCase(SubSeq(s, 1, colon - 1)), From(s, colon + 1))

\* new URL(s) without a base: a string with no scheme is not a URL (the
\* constructor throws, here ok = FALSE). The scheme and the host of an http(s)
\* URL are lower-cased and the "\" of its path are "/". Dot segments and the
\* characters the parser would percent-encode do not occur in the model's URLs.
ParseUrl(s) == ParseUrlAt(s, IndexOf(s, ":"))

\* url.toString() and url.href: the serialization of a URL.
Href(u) ==
    u.scheme \o << ":" >>
    \o (IF u.host = Null THEN << >> ELSE << "/", "/" >> \o u.host)
    \o (IF u.port = Null THEN << >> ELSE << ":" >> \o u.port)
    \o u.path
    \o (IF u.query = Null THEN << >> ELSE << "?" >> \o u.query)
    \o (IF u.fragment = Null THEN << >> ELSE << "#" >> \o u.fragment)

\* url.searchParams as a list of (name, value) pairs.
SearchParams(u) == ParseQuery(u.query)

\* The URL after its searchParams were changed to list: the query is the
\* serialization of the list, and is dropped when the list is empty.
UpdateQuery(u, list) ==
    [u EXCEPT !.query = IF list = << >> THEN Null ELSE SerializeParams(list)]

\* The value of the first pair of a list, or null.
FirstValue(named) == IF named = << >> THEN Null ELSE named[1][2]

\* url.searchParams.get(name): the value of the first pair named name, or null.
SearchParamsGet(u, name) ==
    FirstValue(SelectSeq(SearchParams(u), LAMBDA p : p[1] = name))

\* url.searchParams.delete(name): every pair named name is removed.
SearchParamsDelete(u, name) ==
    UpdateQuery(u, SelectSeq(SearchParams(u), LAMBDA p : p[1] # name))

\* url.searchParams.append(name, value)
SearchParamsAppend(u, name, value) ==
    UpdateQuery(u, Append(SearchParams(u), << name, value >>))

\* The index of the first pair of list named name, 0 when there is none.
FirstNamed(list, name) ==
    IF \E i \in 1..Len(list) : list[i][1] = name
    THEN CHOOSE i \in 1..Len(list) :
            list[i][1] = name /\ \A j \in 1..(i - 1) : list[j][1] # name
    ELSE 0

\* list with the pair at first given the value and the other pairs named name
\* removed.
SetAt(list, first, name, value) ==
    IF first = 0 THEN Append(list, << name, value >>)
    ELSE [i \in 1..first |-> IF i = first THEN << name, value >> ELSE list[i]]
         \o SelectSeq(SubSeq(list, first + 1, Len(list)), LAMBDA p : p[1] # name)

SetIn(list, name, value) == SetAt(list, FirstNamed(list, name), name, value)

\* url.searchParams.set(name, value): the first pair named name gets the value
\* and the other pairs of that name are removed; appended when there is none.
SearchParamsSet(u, name, value) == UpdateQuery(u, SetIn(SearchParams(u), name, value))

(***************************************************************************)
(* Configuration (lib/constants.ts)                                         *)
(***************************************************************************)

API_SECRET == << "s", "k", "_", "1" >>

\* A secret that is not the server's.
OtherSecret == << "s", "k", "_", "2" >>

BASE_URL == << "h", "t", "t", "p", ":", "/", "/", "u", "t" >>

APP_ID == << "a", "p", "p" >>

(***************************************************************************)
(* Signing and verifying URLs                                               *)
(***************************************************************************)

signaturePrefix == << "h", "m", "a", "c", "-", "s", "h", "a", "2", "5", "6", "=" >>

ExpiresName == << "e", "x", "p", "i", "r", "e", "s" >>

SignatureName == << "s", "i", "g", "n", "a", "t", "u", "r", "e" >>

\* crypto.subtle.verify("HMAC", key, sigBytes, payload): the bytes given are the
\* HMAC of the payload, all of them.
SubtleVerify(secret, sigBytes, payload) == sigBytes = HmacSha256(secret, payload)

\* The signature parameter without the prefix it may start with.
StripPrefix(rawSig) ==
    IF StartsWith(rawSig, signaturePrefix) THEN From(rawSig, Len(signaturePrefix) + 1)
    ELSE rawSig

\* verifySdkSignature after new URL(requestUrl): the signature is read and
\* deleted, and what it decodes to is verified against the URL that is left.
VerifySdkUrl(url, rawSig, secret) ==
    IF Falsy(rawSig) THEN "false"
    ELSE IF SubtleVerify(secret, BufferFromHex(StripPrefix(rawSig)),
                         Href(SearchParamsDelete(url, SignatureName)))
    THEN "true"
    ELSE "false"

VerifySdkParsed(url, secret) ==
    IF ~url.ok THEN "throws"
    ELSE VerifySdkUrl(url, SearchParamsGet(url, SignatureName), secret)

\* verifySdkSignature(requestUrl, secret): "true", "false", or "throws" when
\* new URL(requestUrl) throws. The expires parameter is not read.
verifySdkSignature(requestUrl, secret) == VerifySdkParsed(ParseUrl(requestUrl), secret)

\* The signature as compared by verifyCdnSignedUrl: what follows its last "=".
IncomingSignature(signature) ==
    IF Includes(signature, "=") THEN SplitPop(signature, "=") ELSE signature

\* A URL that is expired at its deadline already.
ExpiredAtDeadline(now, expiresTs) == now >= expiresTs

\* Date.now() > expiresTs
Expired(now, expiresTs) == now > expiresTs

\* A comparison of the lengths alone.
SameLength(incomingBuf, expected) == Len(incomingBuf) = Len(expected)

\* The comparison of verifyCdnSignedUrl: the lengths, then the bytes.
SameBytes(incomingBuf, expected) ==
    IF Len(incomingBuf) # Len(expected) THEN FALSE ELSE incomingBuf = expected

\* verifyCdnSignedUrl after the parameters are read.
VerifyCdnParams(u, expires, signature, expiresTs, secret, now) ==
    IF Falsy(expires) \/ Falsy(signature) THEN FALSE
    ELSE IF expiresTs.nan \/ Expired(now, expiresTs.val) THEN FALSE
    ELSE SameBytes(BufferFromHex(IncomingSignature(signature)),
                   HmacSha256(secret, Href(SearchParamsDelete(u, SignatureName))))

VerifyCdnExpires(u, expires, secret, now) ==
    VerifyCdnParams(u, expires, SearchParamsGet(u, SignatureName),
                    IF Falsy(expires) THEN NaN ELSE ParseInt(expires), secret, now)

VerifyCdnParsed(u, secret, now) ==
    IF ~u.ok THEN FALSE
    ELSE VerifyCdnExpires(u, SearchParamsGet(u, ExpiresName), secret, now)

\* verifyCdnSignedUrl(fullUrl, secret) at time now (Date.now()). Every throw is
\* caught and gives false.
verifyCdnSignedUrl(fullUrl, secret, now) == VerifyCdnParsed(ParseUrl(fullUrl), secret, now)

\* 86400 * 7 seconds: the longest life of a signed read URL.
MaxSignedUrlTtl == 86400 * 7

\* parseTimeToSeconds(time) for a number: Math.floor of a non-negative number,
\* a throw (ok = FALSE) for a negative one.
parseTimeToSeconds(time) ==
    IF time < 0 THEN [ok |-> FALSE, val |-> 0] ELSE [ok |-> TRUE, val |-> time]

\* The signature of a payload: the prefix and the hex digest.
SignPayload(secret, payload) == signaturePrefix \o toHex(HmacSha256(secret, payload))

\* URL.searchParams.append("signature", signature) and the URL's href.
AppendSignature(u, signature) == Href(SearchParamsAppend(u, SignatureName, signature))

\* getSignedUrl from the URL that has its expires: it is signed as it is, and
\* the signature is appended.
SignReadUrl(withExpires, apiSecret) ==
    AppendSignature(withExpires, SignPayload(apiSecret, Href(withExpires)))

\* getSignedUrl from the TTL: the URL of the file gets its expires.
SignedUrlFor(parsedURL, ttl, apiSecret, now) ==
    IF ~ttl.ok \/ ttl.val <= 0 \/ ttl.val > MaxSignedUrlTtl \/ ~parsedURL.ok
    THEN [ok |-> FALSE, url |-> << >>]
    ELSE [ok |-> TRUE,
          url |-> SignReadUrl(SearchParamsAppend(parsedURL, ExpiresName,
                                                 NumberToString(now + ttl.val * 1000)),
                              apiSecret)]

\* LocalStorageAdapter.getSignedUrl(fileKey, expiresIn) of an adapter built with
\* (baseUrl, apiSecret), called at time now: ok = FALSE when it throws.
getSignedUrl(baseUrl, apiSecret, fileKey, expiresIn, now) ==
    SignedUrlFor(ParseUrl(baseUrl \o << "/", "f", "/" >> \o fileKey),
                 parseTimeToSeconds(expiresIn), apiSecret, now)

\* getPublicUrl(fileKey)
getPublicUrl(baseUrl, fileKey) == baseUrl \o << "/", "f", "/" >> \o fileKey

\* url.searchParams.set(name, value) for every entry of params, in order.
RECURSIVE SetAll(_, _)
SetAll(u, params) ==
    IF params = << >> THEN u
    ELSE SetAll(SearchParamsSet(u, params[1][1], params[1][2]), Tail(params))

\* The end of generateSignedUploadUrl: the URL is signed as it is and the
\* signature is set.
SetSignature(withParams, secret) ==
    Href(SearchParamsSet(withParams, SignatureName, SignPayload(secret, Href(withParams))))

\* The steps of generateSignedUploadUrl after new URL(...): expires is set, then
\* every entry of params, the URL is signed and the signature is set last.
SignUploadUrl(url, params, expiresIn, secret, now) ==
    SetSignature(SetAll(SearchParamsSet(url, ExpiresName,
                                        NumberToString(now + expiresIn * 1000)),
                        params),
                 secret)

\* generateSignedUploadUrl after new URL(params.key), which throws (ok = FALSE)
\* when the key is no URL.
SignUploadFrom(url, params, expiresIn, now) ==
    IF ~url.ok THEN [ok |-> FALSE, url |-> << >>]
    ELSE [ok |-> TRUE, url |-> SignUploadUrl(url, params, expiresIn, API_SECRET, now)]

\* generateSignedUploadUrl(params, expiresIn) at time now; params is the list of
\* the entries of the object, the entry "key" first.
generateSignedUploadUrl(params, expiresIn, now) ==
    SignUploadFrom(ParseUrl(params[1][2]), params, expiresIn, now)

(***************************************************************************)
(* Requests                                                                 *)
(***************************************************************************)

\* Keys as generateFileKey() makes them: characters of the nanoid alphabet.
k1 == << "k", "1" >>

k2 == << "k", "2" >>

Keys == {k1, k2}

\* Request bodies.
Bodies == {"A", "B"}

\* The clock counts seconds up to MaxClock; Date.now() is in milliseconds.
MaxClock == 2

DateNow(seconds) == seconds * 1000

\* The names of the query parameters the ingest handlers read.
FileNameParam == << "x", "-", "u", "t", "-", "f", "i", "l", "e", "-", "n", "a", "m", "e" >>

FileSizeParam == << "x", "-", "u", "t", "-", "f", "i", "l", "e", "-", "s", "i", "z", "e" >>

FileTypeParam == << "x", "-", "u", "t", "-", "f", "i", "l", "e", "-", "t", "y", "p", "e" >>

AclParam == << "x", "-", "u", "t", "-", "a", "c", "l" >>

ContentDispositionParam ==
    << "x", "-", "u", "t", "-", "c", "o", "n", "t", "e", "n", "t", "-",
       "d", "i", "s", "p", "o", "s", "i", "t", "i", "o", "n" >>

publicRead == << "p", "u", "b", "l", "i", "c", "-", "r", "e", "a", "d" >>

private == << "p", "r", "i", "v", "a", "t", "e" >>

attachment == << "a", "t", "t", "a", "c", "h", "m", "e", "n", "t" >>

inline == << "i", "n", "l", "i", "n", "e" >>

octetStream ==
    << "a", "p", "p", "l", "i", "c", "a", "t", "i", "o", "n", "/",
       "o", "c", "t", "e", "t", "-", "s", "t", "r", "e", "a", "m" >>

\* Declared metadata as an SDK puts it in the query of an upload URL: a full
\* declaration, and none at all (the handlers fall back to their defaults).
DeclaredFull ==
    << << FileNameParam, << "a" >> >>, << FileSizeParam, << "7" >> >>,
       << FileTypeParam, << "t" >> >>, << AclParam, publicRead >>,
       << ContentDispositionParam, attachment >> >>

DeclaredNone == << >>

\* The upload URL of key as the SDK signs it (the signer that verifySdkSignature
\* and the comment above verifyCdnSignedUrl describe): the ingest URL of the key,
\* expires and the declared metadata, then the signature of all that, last.
SdkUploadUrl(key, declared, expiresAtMs, secret) ==
    SignReadUrl(SetAll(SearchParamsAppend(ParseUrl(BASE_URL \o << "/" >> \o key),
                                          ExpiresName, NumberToString(expiresAtMs)),
                       declared),
                secret)

\* c.req.param("fileKey") of the routes /:fileKey: the one path segment, decoded.
\* Null when the path is not one segment.
FileKeyParam(url) ==
    LET path == ParseUrl(url).path
        segment == From(path, 2)
    IN  IF Len(path) < 2 \/ path[1] # "/" \/ Includes(segment, "/") THEN Null
        ELSE PercentDecode(segment)

\* c.req.query()[name]: the first value of the parameter, decoded, or undefined.
Query(url, name) == SearchParamsGet(ParseUrl(url), name)

\* x ?? d
OrElse(x, d) == IF x = Null THEN d ELSE x

\* decodeURIComponent(s): ok = FALSE (a URIError) when a "%" is not followed by
\* two hex digits.
decodeURIComponent(s) ==
    LET malformed == \E i \in 1..Len(s) :
                        /\ s[i] = "%"
                        /\ ~(i + 2 <= Len(s) /\ IsHexDigit(s[i + 1]) /\ IsHexDigit(s[i + 2]))
    IN  IF malformed THEN [ok |-> FALSE, val |-> << >>]
        ELSE [ok |-> TRUE, val |-> PercentDecode(s)]

\* The value of a sequence of hex digits.
RECURSIVE HexDigitsValue(_)
HexDigitsValue(s) ==
    IF s = << >> THEN 0
    ELSE 16 * HexDigitsValue(SubSeq(s, 1, Len(s) - 1)) + HexVal(s[Len(s)])

RECURSIVE LeadingHexDigits(_)
LeadingHexDigits(s) ==
    IF s = << >> \/ ~IsHexDigit(Head(s)) THEN 0 ELSE 1 + LeadingHexDigits(Tail(s))

\* parseInt(s) with no radix: as parseInt(s, 10), but a number that starts 0x or
\* 0X is read as hex.
ParseIntNoRadix(s) ==
    LET t == From(s, LeadingBlanks(s) + 1)
        neg == t # << >> /\ t[1] = "-"
        u == IF t # << >> /\ t[1] \in {"-", "+"} THEN Tail(t) ELSE t
        hex == Len(u) >= 2 /\ u[1] = "0" /\ u[2] \in {"x", "X"}
        n == LeadingHexDigits(From(u, 3))
    IN  IF ~hex THEN ParseInt(s)
        ELSE IF n = 0 THEN NaN
        ELSE [nan |-> FALSE,
              val |-> (IF neg THEN -1 ELSE 1) * HexDigitsValue(SubSeq(u, 3, n + 2))]

(***************************************************************************)
(* The record store (prisma.file) and the storage backend                   *)
(***************************************************************************)

\* No Date.
NoDate == -1

\* The sha256 of a body, in hex, as one value per body.
Sha256Hex(body) == << "sha256", body >>

\* The columns of a new File that create does not give: their schema defaults.
SchemaDefaults ==
    [customId |-> Null, metadata |-> Null, callbackUrl |-> Null, callbackSlug |-> Null,
     fileHash |-> Null, uploadedAt |-> NoDate]

\* f with the fields of g added or replaced.
Merge(f, g) ==
    [x \in DOMAIN f \cup DOMAIN g |-> IF x \in DOMAIN g THEN g[x] ELSE f[x]]

\* The create of an upsert with the column that is the time of the creation:
\* createdAt DateTime @default(now()).
Created(create, now) == Merge(create, [createdAt |-> now])

\* The store is a function from the keys of its records to the records: key is
\* @unique.
NoFiles == [k \in {} |-> NULL]

\* An upsert whose update is its create: the record is written whether the key
\* has one or not.
UpsertOverwriting(store, key, create) ==
    [k \in DOMAIN store \cup {key} |->
        IF k = key THEN Merge(SchemaDefaults, create) ELSE store[k]]

\* An upsert whose update is {status: "UPLOADING"}: a registration starts the
\* record of the key over.
UpsertResetting(store, key, create) ==
    IF key \in DOMAIN store THEN [store EXCEPT ![key].status = "UPLOADING"]
    ELSE [k \in DOMAIN store \cup {key} |->
            IF k = key THEN Merge(SchemaDefaults, create) ELSE store[k]]

\* prisma.file.upsert({where: {key}, create, update: {}}): a record is created
\* when the key has none; an existing record is left as it is.
Upsert(store, key, create) ==
    IF key \in DOMAIN store THEN store
    ELSE [k \in DOMAIN store \cup {key} |->
            IF k = key THEN Merge(SchemaDefaults, create) ELSE store[k]]

\* prisma.file.update({where: {key}, data}) on a store that has the key.
Update(store, key, data) == [store EXCEPT ![key] = Merge(@, data)]

\* An updateMany that also writes the schema default of uploadedAt.
UpdateManyResetting(store, matching, data) ==
    [k \in DOMAIN store |->
        IF k \in matching THEN Merge(store[k], Merge(data, [uploadedAt |-> NoDate]))
        ELSE store[k]]

\* prisma.file.updateMany({where, data}): every record whose key is in matching
\* gets data.
UpdateMany(store, matching, data) ==
    [k \in DOMAIN store |-> IF k \in matching THEN Merge(store[k], data) ELSE store[k]]

\* A mutant of deleteMany: one of the records that match is removed.
DeleteOne(store, matching) ==
    IF matching = {} THEN store
    ELSE [k \in DOMAIN store \ {CHOOSE m \in matching : TRUE} |-> store[k]]

\* prisma.file.deleteMany({where}): the records whose key is in matching go.
DeleteMany(store, matching) == [k \in DOMAIN store \ matching |-> store[k]]

\* The keys of the records that where selects: {key: {in: fileKeys}} or
\* {customId: {in: customIds}}.
Matching(store, by, ids) ==
    IF by = "key" THEN {k \in DOMAIN store : k \in ids}
    ELSE {k \in DOMAIN store : store[k].customId \in ids}

\* The create argument of the upsert of an ingest handler, from the query of
\* the request; ok = FALSE when building it throws (decodeURIComponent) or
\* prisma refuses it (a size that is NaN).
IngestCreate(name, size, type, acl, contentDisposition) ==
    [ok |-> name.ok /\ type.ok /\ ~size.nan,
     data |-> [name |-> name.val, size |-> size.val, type |-> type.val,
               status |-> "UPLOADING",
               acl |-> IF acl = publicRead THEN "PUBLIC_READ" ELSE "PRIVATE",
               contentDisposition |->
                   IF contentDisposition = attachment THEN "ATTACHMENT" ELSE "INLINE"]]

unknownFile == << "u", "n", "k", "n", "o", "w", "n", "-", "f", "i", "l", "e" >>

unknown == << "u", "n", "k", "n", "o", "w", "n" >>

\* create of app.get("/:fileKey")
PreflightCreate(url) ==
    IngestCreate(decodeURIComponent(OrElse(Query(url, FileNameParam), unknownFile)),
                 ParseIntNoRadix(OrElse(Query(url, FileSizeParam), << "0" >>)),
                 decodeURIComponent(OrElse(Query(url, FileTypeParam), octetStream)),
                 Query(url, AclParam), Query(url, ContentDispositionParam))

\* create of app.put("/:fileKey")
PutCreate(url) ==
    IngestCreate(decodeURIComponent(OrElse(Query(url, FileNameParam), unknown)),
                 ParseInt(OrElse(Query(url, FileSizeParam), << "0" >>)),
                 decodeURIComponent(OrElse(Query(url, FileTypeParam), octetStream)),
                 Query(url, AclParam), Query(url, ContentDispositionParam))

\* A guard that tells a request with no signature (401) from a request with a
\* signature that does not verify (403).
ingestAuthMiddlewareTelling(url) ==
    LET verdict == verifySdkSignature(url, API_SECRET)
    IN  IF verdict = "true" THEN 0
        ELSE IF Falsy(SearchParamsGet(ParseUrl(url), SignatureName)) THEN 401
        ELSE IF verdict = "false" THEN 403 ELSE 500

\* ingestAuthMiddleware: the handler runs (0) when verifySdkSignature accepts the
\* request URL; 403 when it refuses; when it throws, the error handler answers 500.
ingestAuthMiddleware(url) ==
    LET verdict == verifySdkSignature(url, API_SECRET)
    IN  IF verdict = "true" THEN 0 ELSE IF verdict = "false" THEN 403 ELSE 500

\* An ingest request of the model: a key, a declaration and who signed it.
IngestCases == [key : Keys, decl : {"full", "none"}, signer : {"server", "other", "unsigned"}]

IngestUrl(c) ==
    LET declared == IF c.decl = "full" THEN DeclaredFull ELSE DeclaredNone
    IN  IF c.signer = "server" THEN SdkUploadUrl(c.key, declared, 1000, API_SECRET)
        ELSE IF c.signer = "other" THEN SdkUploadUrl(c.key, declared, 1000, OtherSecret)
        ELSE Href(SetAll(SearchParamsAppend(ParseUrl(BASE_URL \o << "/" >> \o c.key),
                                            ExpiresName, NumberToString(1000)),
                         declared))

\* What the ingest middleware and handlers compute from the URL of a request.
IngestFactsOf(url) ==
    [guard |-> ingestAuthMiddleware(url),
     fileKey |-> FileKeyParam(url),
     expires |-> ParseInt(OrElse(Query(url, ExpiresName), << >>)),
     preflight |-> PreflightCreate(url),
     put |-> PutCreate(url)]

\* The same, once per request of the model.
IngestFacts == [c \in IngestCases |-> IngestFactsOf(IngestUrl(c))] @@ << >>

\* The CDN requests of the model: the routes /f/:fileKey and /a/:appID/:fileKey
\* for the server's appID and another, with a URL that expires at 1000 ms signed
\* with the server's secret or with another secret, or with no query at all.
CdnCases ==
    [route : {<< "f" >>, << "a", APP_ID >>, << "a", << "x" >> >>}, key : Keys,
     signer : {"server", "other", "unsigned"}]

CdnUrl(c) ==
    LET base == IF c.route[1] = "f" THEN BASE_URL \o << "/", "f", "/" >> \o c.key
                ELSE BASE_URL \o << "/", "a", "/" >> \o c.route[2] \o << "/" >> \o c.key
    IN  IF c.signer = "unsigned" THEN base
        ELSE SignReadUrl(SearchParamsAppend(ParseUrl(base), ExpiresName,
                                            NumberToString(1000)),
                         IF c.signer = "server" THEN API_SECRET ELSE OtherSecret)

\* The decoded segments of the path of a request URL.
PathParams(url) ==
    LET segments == Split(From(ParseUrl(url).path, 2), "/")
    IN  [i \in 1..Len(segments) |-> PercentDecode(segments[i])]

\* What the CDN handlers compute from the URL of a request and the parameters of
\* its path: the route parameters, and at each time the model has the verdict of
\* verifyCdnSignedUrl(new URL(c.req.url, BASE_URL).toString(), API_SECRET).
CdnFactsOf(url, params) ==
    [endpoint |-> params[1],
     appID |-> IF params[1] = << "a" >> THEN params[2] ELSE Null,
     fileKey |-> params[Len(params)],
     verified |-> [t \in 0..MaxClock |->
                     verifyCdnSignedUrl(Href(ParseUrl(url)), API_SECRET, DateNow(t))]]

CdnRequestFacts(url) == CdnFactsOf(url, PathParams(url))

\* The same, once per request of the model.
CdnFacts == [c \in CdnCases |-> CdnRequestFacts(CdnUrl(c))] @@ << >>

\* The bodies of the requestFileAccess requests of the model.
AccessBodies == [fileKey : Keys, expiresIn : {0, 1, MaxSignedUrlTtl + 1}]

\* What storageAdapter.getSignedUrl(file.key, expiresIn) gives for each request
\* of the model at each time of the model.
SignedUrls ==
    [body \in AccessBodies, t \in 0..MaxClock |->
        getSignedUrl(BASE_URL, API_SECRET, body.fileKey, body.expiresIn, DateNow(t))]
    @@ << >>

(***************************************************************************)
(* Authentication of the management API                                     *)
(***************************************************************************)

\* The alphabet of base64.
Base64Alphabet ==
    << "A", "B", "C", "D", "E", "F", "G", "H", "I", "J", "K", "L", "M", "N", "O", "P", "Q",
       "R", "S", "T", "U", "V", "W", "X", "Y", "Z", "a", "b", "c", "d", "e", "f", "g", "h",
       "i", "j", "k", "l", "m", "n", "o", "p", "q", "r", "s", "t", "u", "v", "w", "x", "y",
       "z", "0", "1", "2", "3", "4", "5", "6", "7", "8", "9", "+", "/" >>

\* Is c a character of base64, of the standard alphabet or of the URL-safe one?
IsBase64Char(c) == c \in {"-", "_"} \/ \E i \in 1..64 : Base64Alphabet[i] = c

\* The six bits of a character of base64.
Base64Index(c) ==
    IF c = "-" THEN 62 ELSE IF c = "_" THEN 63
    ELSE (CHOOSE i \in 1..64 : Base64Alphabet[i] = c) - 1

\* Buffer.from(string): the bytes of a string of ASCII characters.
BufferFrom(s) == [i \in 1..Len(s) |-> CharCode(s[i])]

\* buffer.toString("base64"): four characters for three bytes, the last group
\* padded with "=".
ToBase64(bytes) ==
    LET byte(i) == IF i <= Len(bytes) THEN bytes[i] ELSE 0
        word(g) == byte(3 * g + 1) * 65536 + byte(3 * g + 2) * 256 + byte(3 * g + 3)
    IN  [j \in 1..(4 * ((Len(bytes) + 2) \div 3)) |->
            IF 3 * ((j - 1) \div 4) + ((j - 1) % 4) > Len(bytes) THEN "="
            ELSE Base64Alphabet[((word((j - 1) \div 4) \div (64 ^ (3 - ((j - 1) % 4)))) % 64) + 1]]

\* The bytes of a sequence of characters of base64: eight bits for a byte, the
\* bits that are left over dropped.
Base64Bytes(sextets) ==
    [i \in 1..((Len(sextets) * 6) \div 8) |->
        ((Base64Index(sextets[((8 * (i - 1)) \div 6) + 1]) * 64
          + Base64Index(sextets[((8 * (i - 1)) \div 6) + 2]))
         \div (2 ^ (4 - ((8 * (i - 1)) % 6)))) % 256]

\* Buffer.from(token, "base64"): it throws on no string; the characters that are
\* not of base64 are passed over and the first "=" ends the data.
BufferFromBase64(token) ==
    Base64Bytes(SelectSeq(SubSeq(token, 1, IF Includes(token, "=") THEN IndexOf(token, "=") - 1
                                            ELSE Len(token)),
                          IsBase64Char))

\* buffer.toString("utf-8"): the characters of the bytes; a byte that is not of
\* printable ASCII gives a character that is not either.
Utf8ToString(bytes) == [i \in 1..Len(bytes) |-> CharOf(bytes[i])]

\* The value undefined of JavaScript.
Undefined == [t |-> "undefined"]

\* The value null of JavaScript.
JsonNull == [t |-> "null"]

\* JSON.parse(text): ok = FALSE when it throws a SyntaxError, else val is the
\* value: t one of "null", "boolean", "number", "string", "array", "object", s
\* the characters of a string and members the << name, value >> of an object
\* in the order of the text.  Blanks are the white space of the texts; a
\* number keeps no value; a character that is not of printable ASCII is kept in
\* a string and is an error elsewhere.
JsonParse(text) ==
    LET RECURSIVE Value(_), Chars(_, _), Elements(_), Members(_, _)
        n == Len(text)
        Fail == [ok |-> FALSE, next |-> 0, val |-> Undefined]
        Ok(next, val) == [ok |-> TRUE, next |-> next, val |-> val]
        Is(i, c) == i <= n /\ text[i] = c
        Blank(c) == c = " "
        Span(i, Test(_)) ==
            IF \E j \in i..n : ~Test(text[j])
            THEN CHOOSE j \in i..n : ~Test(text[j]) /\ \A m \in i..(j - 1) : Test(text[m])
            ELSE n + 1
        SkipBlanks(i) == Span(i, Blank)
        Literal(i, word, val) ==
            IF i + Len(word) - 1 <= n /\ SubSeq(text, i, i + Len(word) - 1) = word
            THEN Ok(i + Len(word), val) ELSE Fail
        ExponentDigits(i) ==
            IF Span(i, IsDigit) > i THEN Ok(Span(i, IsDigit), [t |-> "number"]) ELSE Fail
        \* the exponent of a number at i, if any
        Exponent(i) ==
            IF ~(Is(i, "e") \/ Is(i, "E")) THEN Ok(i, [t |-> "number"])
            ELSE ExponentDigits(IF Is(i + 1, "+") \/ Is(i + 1, "-") THEN i + 2 ELSE i + 1)
        Fraction(i) ==
            IF ~Is(i, ".") THEN Exponent(i)
            ELSE IF Span(i + 1, IsDigit) > i + 1 THEN Exponent(Span(i + 1, IsDigit)) ELSE Fail
        Integer(i) ==
            IF Is(i, "0") THEN Fraction(i + 1)
            ELSE IF Span(i, IsDigit) > i THEN Fraction(Span(i, IsDigit)) ELSE Fail
        Number(i) == IF Is(i, "-") THEN Integer(i + 1) ELSE Integer(i)
        \* the characters of a string from i to the quote that ends it
        Chars(i, acc) ==
            IF i > n THEN Fail
            ELSE IF text[i] = "\"" THEN Ok(i + 1, [t |-> "string", s |-> acc])
            ELSE IF text[i] # "\\" THEN Chars(i + 1, Append(acc, text[i]))
            ELSE IF i + 1 > n THEN Fail
            ELSE IF text[i + 1] \in {"\"", "\\", "/"} THEN Chars(i + 2, Append(acc, text[i + 1]))
            ELSE IF text[i + 1] \in {"b", "f", "n", "r", "t"}
                 THEN Chars(i + 2, Append(acc, NonPrintable))
            ELSE IF /\ text[i + 1] = "u" /\ i + 5 <= n
                    /\ \A j \in (i + 2)..(i + 5) : IsHexDigit(text[j])
                 THEN Chars(i + 6, Append(acc, CharOf(HexVal(text[i + 2]) * 4096
                                                      + HexVal(text[i + 3]) * 256
                                                      + HexVal(text[i + 4]) * 16
                                                      + HexVal(text[i + 5]))))
            ELSE Fail
        \* the elements of an array, i after "[" or ","; the answer is after "]"
        ElementsAfter(v) ==
            IF ~v.ok THEN Fail
            ELSE IF Is(SkipBlanks(v.next), "]") THEN Ok(SkipBlanks(v.next) + 1, [t |-> "array"])
            ELSE IF Is(SkipBlanks(v.next), ",") THEN Elements(SkipBlanks(v.next) + 1)
            ELSE Fail
        Elements(i) == ElementsAfter(Value(i))
        \* the members of an object, i at the name of one
        MembersAfter(name, v, acc) ==
            IF ~v.ok THEN Fail
            ELSE IF Is(SkipBlanks(v.next), "}")
                 THEN Ok(SkipBlanks(v.next) + 1,
                         [t |-> "object", members |-> Append(acc, << name, v.val >>)])
            ELSE IF Is(SkipBlanks(v.next), ",")
                 THEN Members(SkipBlanks(SkipBlanks(v.next) + 1), Append(acc, << name, v.val >>))
            ELSE Fail
        MemberNamed(name, acc) ==
            IF ~name.ok \/ ~Is(SkipBlanks(name.next), ":") THEN Fail
            ELSE MembersAfter(name.val.s, Value(SkipBlanks(name.next) + 1), acc)
        Members(i, acc) == IF ~Is(i, "\"") THEN Fail ELSE MemberNamed(Chars(i + 1, << >>), acc)
        ValueAt(i) ==
            IF i > n THEN Fail
            ELSE IF text[i] = "{"
                 THEN IF Is(SkipBlanks(i + 1), "}")
                      THEN Ok(SkipBlanks(i + 1) + 1, [t |-> "object", members |-> << >>])
                      ELSE Members(SkipBlanks(i + 1), << >>)
            ELSE IF text[i] = "["
                 THEN IF Is(SkipBlanks(i + 1), "]")
                      THEN Ok(SkipBlanks(i + 1) + 1, [t |-> "array"])
                      ELSE Elements(i + 1)
            ELSE IF text[i] = "\"" THEN Chars(i + 1, << >>)
            ELSE IF text[i] = "n" THEN Literal(i, << "n", "u", "l", "l" >>, JsonNull)
            ELSE IF text[i] = "t" THEN Literal(i, << "t", "r", "u", "e" >>, [t |-> "boolean"])
            ELSE IF text[i] = "f"
                 THEN Literal(i, << "f", "a", "l", "s", "e" >>, [t |-> "boolean"])
            ELSE IF text[i] = "-" \/ IsDigit(text[i]) THEN Number(i)
            ELSE Fail
        Value(i) == ValueAt(SkipBlanks(i))
        Whole(v) == IF v.ok /\ SkipBlanks(v.next) = n + 1 THEN v ELSE Fail
    IN  Whole(Value(1))

\* typeof value
TypeOf(value) == IF value.t \in {"null", "array"} THEN "object" ELSE value.t

\* value[name] of an object or an array that is not null, for a name that no
\* array has: of the members of that name the last, undefined when none.
Property(value, name) ==
    IF value.t # "object" \/ \A i \in 1..Len(value.members) : value.members[i][1] # name
    THEN Undefined
    ELSE value.members[CHOOSE i \in 1..Len(value.members) :
                          /\ value.members[i][1] = name
                          /\ \A j \in (i + 1)..Len(value.members) :
                                value.members[j][1] # name][2]

default == << "d", "e", "f", "a", "u", "l", "t" >>

NoToken == [ok |-> FALSE, throws |-> FALSE, appId |-> << >>, apiKey |-> << >>]

\* parseApiToken left by a TypeError.
Thrown == [ok |-> FALSE, throws |-> TRUE, appId |-> << >>, apiKey |-> << >>]

\* parseApiToken from the typeof checks on: parsed is what JSON.parse gave.
\* parsed.apiKey of null is a TypeError that no try encloses.
TokenOf(parsed) ==
    IF ~parsed.ok THEN NoToken
    ELSE IF TypeOf(parsed.val) # "object" THEN NoToken
    ELSE IF parsed.val = JsonNull THEN Thrown
    ELSE IF TypeOf(Property(parsed.val, << "a", "p", "i", "K", "e", "y" >>)) # "string" THEN NoToken
    ELSE [ok |-> TRUE, throws |-> FALSE,
          appId |-> IF TypeOf(Property(parsed.val, << "a", "p", "p", "I", "d" >>)) = "string"
                    THEN Property(parsed.val, << "a", "p", "p", "I", "d" >>).s ELSE default,
          apiKey |-> Property(parsed.val, << "a", "p", "i", "K", "e", "y" >>).s]

\* parseApiToken: a token without a dot and of at most 64 characters is a raw
\* apiKey; another token is the base64 of a JSON text.
parseApiToken(token) ==
    IF ~Includes(token, ".") /\ Len(token) <= 64
    THEN [ok |-> TRUE, throws |-> FALSE, appId |-> default, apiKey |-> token]
    ELSE TokenOf(JsonParse(Utf8ToString(BufferFromBase64(token))))

\* JSON.stringify(config) of the script that encodes the token of the server:
\* apiKey, appId, regions and ingestHost.
ConfigJson ==
    << "{", "\"", "a", "p", "i", "K", "e", "y", "\"", ":", "\"" >> \o API_SECRET
    \o << "\"", ",", "\"", "a", "p", "p", "I", "d", "\"", ":", "\"" >> \o APP_ID
    \o << "\"", ",", "\"", "r", "e", "g", "i", "o", "n", "s", "\"", ":", "[", "\"", "u", "s", "-", "e", "a", "s", "t", "-", "1", "\"", "]", ",", "\"", "i", "n", "g", "e", "s", "t", "H", "o", "s", "t", "\"", ":", "\"" >>
    \o BASE_URL \o << "\"", "}" >>

\* encodeConfigToBase64(): the token the script prints.
encodeConfigToBase64 == ToBase64(BufferFrom(ConfigJson))

\* The length from which the base64 of a text is longer than 64 characters.
LongText == 49

\* A text followed by blanks, for its base64 to be longer than 64 characters.
Padded(text) == text \o [i \in 1..(LongText - Len(text)) |-> " "]

\* The texts of the tokens of the model, other than the one of the script: objects
\* with an apiKey (the secret alone, another secret, with an appId that is no
\* string), objects without a string apiKey, null, a number, a string, an
\* array, and a text that is no JSON.
TokenTexts ==
    {<< "{", "\"", "a", "p", "i", "K", "e", "y", "\"", ":", "\"", "s", "k", "_", "1", "\"", "}" >>,
     << "{", "\"", "a", "p", "i", "K", "e", "y", "\"", ":", "\"", "s", "k", "_", "2", "\"", ",", "\"", "a", "p", "p", "I", "d", "\"", ":", "\"", "a", "p", "p", "\"", "}" >>,
     << "{", "\"", "a", "p", "i", "K", "e", "y", "\"", ":", "\"", "s", "k", "_", "1", "\"", ",", "\"", "a", "p", "p", "I", "d", "\"", ":", "7", "}" >>,
     << "{", "\"", "a", "p", "p", "I", "d", "\"", ":", "\"", "a", "p", "p", "\"", "}" >>,
     << "{", "\"", "a", "p", "i", "K", "e", "y", "\"", ":", "7", "}" >>,
     << "n", "u", "l", "l" >>,
     << "7" >>,
     << "\"", "s", "k", "_", "1", "\"" >>,
     << "[", "\"", "s", "k", "_", "1", "\"", "]" >>,
     << "{", "\"", "a", "p", "i", "K", "e", "y", "\"", ":", "\"", "s", "k", "_", "1", "\"" >>}

\* The tokens of the model: the raw keys, the token of the script, the base64
\* of the texts, and tokens that are neither: a key followed by a dot, a key of
\* 64 characters, a key of 65 characters, 65 characters that are not of base64.
Tokens ==
    {API_SECRET, OtherSecret, encodeConfigToBase64}
    \cup {ToBase64(BufferFrom(Padded(text))) : text \in TokenTexts}
    \cup {API_SECRET \o << "." >>,
          API_SECRET \o [i \in 1..60 |-> "a"],
          API_SECRET \o [i \in 1..61 |-> "a"],
          [i \in 1..65 |-> "!"]}

\* What parseApiToken gives for each token of the model.
TokenData == [token \in Tokens |-> parseApiToken(token)] @@ << >>

\* The x-uploadthing-api-key headers of the requests that try the guard: none,
\* an empty one, the tokens.
TokenHeaders == {Null, << >>} \cup Tokens

validateApiKey(apiKey, secret) == apiKey = secret

\* authMiddleware from parseApiToken on: a throw of parseApiToken leaves the
\* middleware and is answered 500.
Authenticate(tokenData) ==
    IF tokenData.throws THEN 500
    ELSE IF ~tokenData.ok THEN 401
    ELSE IF ~validateApiKey(tokenData.apiKey, API_SECRET) THEN 403
    ELSE 0

\* authMiddleware on the x-uploadthing-api-key header of a request of /v6 or
\* /v7: 0 when the handler runs, else the status of the answer.
authMiddleware(authHeader) ==
    IF Falsy(authHeader) THEN 401 ELSE Authenticate(parseApiToken(authHeader))

\* The x-uploadthing-api-key headers of the model: none, the server's secret,
\* another secret.
AuthHeaders == {Null, API_SECRET, OtherSecret}

\* What authMiddleware gives for each header of the model.
AuthCodes == [h \in AuthHeaders \cup TokenHeaders |-> authMiddleware(h)] @@ << >>

(***************************************************************************)
(* The server                                                               *)
(***************************************************************************)

VARIABLES
    files,      \* the File table: key -> record
    storage,    \* the uploads directory: key -> bytes
    clock,      \* the time, in seconds
    inflight,   \* the requests whose handler is between two awaits, a bag
    event,      \* the last step of a handler that answered or wrote a record
    started     \* the number of requests received

\* The number of requests of a behaviour.
MaxRequests == 3

\* The number of requests that can be between two awaits at once.
MaxInFlight == 2

NoBytes == [k \in {} |-> NULL]

\* Bun.write(filePath, buffer)
Write(disk, key, body) ==
    [k \in DOMAIN disk \cup {key} |-> IF k = key THEN body ELSE disk[k]]

\* fs.unlink(filePath), ENOENT swallowed
Unlink(disk, key) == [k \in DOMAIN disk \ {key} |-> disk[k]]

Receive == started < MaxRequests /\ started' = started + 1

Suspend(request) ==
    /\ BagCardinality(inflight) < MaxInFlight
    /\ inflight' = inflight (+) SetToBag({request})

Resume(request, next) ==
    inflight' = (inflight (-) SetToBag({request})) (+) SetToBag(next)

\* The text of the answer of an ingest request: c.text("Invalid signature", 403)
\* of the middleware, c.text("", 200) of the pre-flight, the text of the error
\* handler; Null while the request has no answer.
IngestText(code) ==
    IF code = 403 THEN << "Invalid signature" >>
    ELSE IF code = 500 THEN << "Internal Server Error" >>
    ELSE IF code = 200 THEN << "" >>
    ELSE Null

\* Is the expires of an ingest request earlier than the time?
Late(facts) == ~facts.expires.nan /\ facts.expires.val < DateNow(clock)

\* The handler of GET /:fileKey on what it computes from the URL.
PreflightHandler(c, facts) ==
    LET code == IF facts.guard # 0 THEN facts.guard
                ELSE IF ~facts.preflight.ok THEN 500 ELSE 200
    IN  /\ Receive
        /\ files' = IF code = 200 THEN Upsert(files, facts.fileKey,
                                                  Created(facts.preflight.data, DateNow(clock)))
                    ELSE files
        /\ event' = [op |-> "preflight", code |-> code, key |-> facts.fileKey,
                     case |-> c, late |-> Late(facts), body |-> IngestText(code)]
        /\ UNCHANGED << storage, clock, inflight >>

\* GET /:fileKey
PreflightGet(c) == PreflightHandler(c, IngestFacts[c])

\* The handler of PUT /:fileKey on what it computes from the URL.
PutHandler(c, body, facts) ==
    LET code == IF facts.guard # 0 THEN facts.guard
                ELSE IF ~facts.put.ok THEN 500 ELSE 0
    IN  /\ Receive
        /\ files' = IF code = 0 THEN Upsert(files, facts.fileKey,
                                                Created(facts.put.data, DateNow(clock)))
                    ELSE files
        /\ IF code = 0
           THEN Suspend([op |-> "put", pc |-> "upload", key |-> facts.fileKey, body |-> body])
           ELSE UNCHANGED inflight
        /\ event' = [op |-> "putBegin", code |-> code, key |-> facts.fileKey,
                     case |-> c, late |-> Late(facts), body |-> IngestText(code)]
        /\ UNCHANGED << storage, clock >>

\* PUT /:fileKey up to the await of the request body: the guard and the upsert.
PutBegin(c, body) == PutHandler(c, body, IngestFacts[c])

\* storageAdapter.upload(fileKey, blob): the bytes are written, then hashed.
PutUpload(r) ==
    /\ BagIn(r, inflight) /\ r.op = "put" /\ r.pc = "upload"
    /\ storage' = Write(storage, r.key, r.body)
    /\ Resume(r, {[r EXCEPT !.pc = "update"]})
    /\ UNCHANGED << files, clock, event, started >>

\* A mutant of PutData: the hash of the new bytes is not written.
PutDataKeepingHash(fileHash, at) == [status |-> "UPLOADED", uploadedAt |-> at]

\* The data of the update of PUT /:fileKey.
PutData(fileHash, at) == [status |-> "UPLOADED", fileHash |-> fileHash, uploadedAt |-> at]

\* prisma.file.update of PUT /:fileKey and the answer; update throws when the
\* record is gone.  The event keeps what the record was before the update.
PutFinish(r) ==
    /\ BagIn(r, inflight) /\ r.op = "put" /\ r.pc = "update"
    /\ Resume(r, {})
    /\ IF r.key \in DOMAIN files
       THEN /\ files' = Update(files, r.key, PutData(Sha256Hex(r.body), DateNow(clock)))
            /\ event' = [op |-> "putDone", code |-> 200, key |-> r.key,
                         before |-> [status |-> files[r.key].status,
                                     fileHash |-> files[r.key].fileHash]]
       ELSE /\ files' = files
            /\ event' = [op |-> "putDone", code |-> 500, key |-> r.key,
                         before |-> [status |-> "none", fileHash |-> Null]]
    /\ UNCHANGED << storage, clock, started >>

\* The data of the update of completeMultipart.
CompleteData(at) == [status |-> "UPLOADED", uploadedAt |-> at]

\* A mutant of FailureData: the hash of the record is cleared with the status.
FailureDataClearingHash == [status |-> "FAILED", fileHash |-> Null]

\* The data of the update of failureCallback.
FailureData == [status |-> "FAILED"]

\* A handler that is one prisma.file.update({where: {key}, data}): 500 when the
\* record is absent.
UpdateHandler(op, refusal, key, data) ==
    LET code == IF refusal # 0 THEN refusal ELSE IF key \in DOMAIN files THEN 200 ELSE 500
    IN  /\ Receive
        /\ files' = IF code = 200 THEN Update(files, key, data) ELSE files
        /\ event' = [op |-> op, code |-> code, key |-> key]
        /\ UNCHANGED << storage, clock, inflight >>

\* POST /v6/completeMultipart
CompleteMultipart(authHeader, key) ==
    UpdateHandler("completeMultipart", AuthCodes[authHeader], key, CompleteData(DateNow(clock)))

\* POST /v6/failureCallback
FailureCallback(authHeader, key) ==
    UpdateHandler("failureCallback", AuthCodes[authHeader], key, FailureData)

\* Time passes.
Tick ==
    /\ clock < MaxClock
    /\ clock' = clock + 1
    /\ UNCHANGED << files, storage, inflight, event, started >>

\* The where of an entry of updates: {key: u.fileKey} when fileKey is given, else
\* {customId: u.customId}.
WhereOf(store, u) ==
    IF ~Falsy(u.fileKey) THEN Matching(store, "key", {u.fileKey})
    ELSE Matching(store, "customId", {u.customId})

\* prisma.$transaction of one updateMany per entry of updates, in order.
RECURSIVE RenameAll(_, _)
RenameAll(store, updates) ==
    IF updates = << >> THEN store
    ELSE RenameAll(UpdateMany(store, WhereOf(store, Head(updates)),
                              [name |-> Head(updates).newName]),
                   Tail(updates))

RECURSIVE UpdateAclAll(_, _)
UpdateAclAll(store, updates) ==
    IF updates = << >> THEN store
    ELSE UpdateAclAll(UpdateMany(store, WhereOf(store, Head(updates)),
                                 [acl |-> IF Head(updates).acl = publicRead
                                          THEN "PUBLIC_READ" ELSE "PRIVATE"]),
                      Tail(updates))

\* results.reduce((sum, result) => sum + result.count, 0): the number of records
\* each entry of updates matched, added up.
RECURSIVE CountAll(_, _)
CountAll(store, updates) ==
    IF updates = << >> THEN 0
    ELSE Cardinality(WhereOf(store, Head(updates))) + CountAll(store, Tail(updates))

newName == << "b" >>

\* The updates of the renameFiles requests of the model.
RenameUpdates == {<< [fileKey |-> k, customId |-> Null, newName |-> newName] >> : k \in Keys}

\* The updates of the updateACL requests of the model.
AclUpdates ==
    {<< [fileKey |-> k, customId |-> Null, acl |-> a] >> : k \in Keys, a \in {publicRead, private}}

\* The handler of renameFiles behind the middleware, refusal what the
\* middleware gave.
RenameHandler(refusal, updates) ==
    /\ Receive
    /\ files' = IF refusal = 0 THEN RenameAll(files, updates) ELSE files
    /\ event' = [op |-> "renameFiles", code |-> IF refusal = 0 THEN 200 ELSE refusal,
                 updates |-> updates,
                 renamedCount |-> IF refusal = 0 THEN CountAll(files, updates) ELSE 0]
    /\ UNCHANGED << storage, clock, inflight >>

\* POST /v6/renameFiles
RenameFiles(authHeader, updates) == RenameHandler(AuthCodes[authHeader], updates)

\* The handler of updateACL behind the middleware.
AclHandler(refusal, updates) ==
    /\ Receive
    /\ files' = IF refusal = 0 THEN UpdateAclAll(files, updates) ELSE files
    /\ event' = [op |-> "updateACL", code |-> IF refusal = 0 THEN 200 ELSE refusal,
                 updates |-> updates,
                 updatedCount |-> IF refusal = 0 THEN CountAll(files, updates) ELSE 0]
    /\ UNCHANGED << storage, clock, inflight >>

\* POST /v6/updateACL
UpdateACL(authHeader, updates) == AclHandler(AuthCodes[authHeader], updates)

\* A metadata object of a route-metadata request, and JSON.stringify of it.
EmptyObject == << "o", "b", "j", "e", "c", "t" >>

JsonStringify(object) == IF object = EmptyObject THEN << "{", "}" >> ELSE Null

\* The bodies of the route-metadata requests of the model.
RouteMetadataBodies ==
    [fileKeys : {{k1}, {k1, k2}}, metadata : {Null, EmptyObject},
     callbackUrl : {<< "c", "b" >>}, callbackSlug : {<< "s" >>}]

\* POST /route-metadata: no middleware guards it.
RouteMetadata(body) ==
    /\ Receive
    /\ files' = UpdateMany(files, Matching(files, "key", body.fileKeys),
                           [metadata |-> IF ~Falsy(body.metadata)
                                         THEN JsonStringify(body.metadata) ELSE Null,
                            callbackUrl |-> body.callbackUrl,
                            callbackSlug |-> body.callbackSlug])
    /\ event' = [op |-> "routeMetadata", code |-> 200, body |-> body]
    /\ UNCHANGED << storage, clock, inflight >>

\* The bodies of the deleteFiles requests of the model.
DeleteBodies ==
    {[by |-> "key", ids |-> {k1}], [by |-> "key", ids |-> {k1, k2}],
     [by |-> "customId", ids |-> {<< "c" >>}]}

\* The handler of deleteFiles behind the middleware, up to Promise.all.
DeleteHandler(refusal, body) ==
    /\ Receive
    /\ IF refusal = 0
       THEN /\ Suspend([op |-> "deleteFiles", pc |-> "unlink", by |-> body.by,
                        ids |-> body.ids,
                        pending |-> Matching(files, body.by, body.ids)])
            /\ event' = event
       ELSE /\ inflight' = inflight
            /\ event' = [op |-> "deleteFiles", code |-> refusal]
    /\ UNCHANGED << files, storage, clock >>

\* POST /v6/deleteFiles up to Promise.all: the middleware and findMany.
DeleteFind(authHeader, body) == DeleteHandler(AuthCodes[authHeader], body)

\* LocalStorageAdapter.delete(key): unlink, and every error of it caught; fails
\* says that unlink threw another error than ENOENT, which leaves the bytes.
StorageDelete(disk, key, fails) == IF fails THEN disk ELSE Unlink(disk, key)

\* One storageAdapter.delete(file.key) of the Promise.all.
DeleteUnlink(r, key, fails) ==
    /\ BagIn(r, inflight) /\ r.op = "deleteFiles" /\ key \in r.pending
    /\ storage' = StorageDelete(storage, key, fails)
    /\ Resume(r, {[r EXCEPT !.pending = @ \ {key}]})
    /\ UNCHANGED << files, clock, event, started >>

\* prisma.file.deleteMany({where}) and the answer.
DeleteFinish(r) ==
    /\ BagIn(r, inflight) /\ r.op = "deleteFiles" /\ r.pending = {}
    /\ Resume(r, {})
    /\ files' = DeleteMany(files, Matching(files, r.by, r.ids))
    /\ event' = [op |-> "deleteFiles", code |-> 200,
                 deletedCount |-> Cardinality(Matching(files, r.by, r.ids))]
    /\ UNCHANGED << storage, clock, started >>

privateNoStore == << "private, no-store" >>

publicImmutable == << "public, max-age=31536000, immutable" >>

\* No bytes in an answer.
NoBody == "none"

\* An answer of a CDN handler that streams nothing: c.json({ error }, code).
CdnError(c, code, acl, error) ==
    [op |-> "cdn", code |-> code, case |-> c, acl |-> acl, at |-> clock,
     contentType |-> Null, disposition |-> NULL, filename |-> Null, cacheControl |-> Null,
     body |-> NoBody, error |-> error]

\* A check that lets every request through.
CdnGuardOpen(file, verified) == TRUE

\* The signature check of the CDN handlers on the record they found.
CdnGuard(file, verified) == file.acl # "PRIVATE" \/ verified

\* A CDN handler on what it computes from the URL.
CdnHandler(c, facts) ==
    /\ Receive
    /\ IF facts.endpoint = << "a" >> /\ facts.appID # APP_ID
       THEN event' = CdnError(c, 403, "none", << "Invalid app ID" >>) /\ inflight' = inflight
       ELSE IF facts.fileKey \notin DOMAIN files
       THEN event' = CdnError(c, 404, "none", << "File not found" >>) /\ inflight' = inflight
       ELSE IF ~CdnGuard(files[facts.fileKey], facts.verified[clock])
       THEN /\ event' = CdnError(c, 403, files[facts.fileKey].acl,
                                  << "Invalid or expired signed URL" >>)
            /\ inflight' = inflight
       ELSE /\ Suspend([op |-> "cdn", pc |-> "serve", case |-> c, key |-> facts.fileKey,
                        file |-> files[facts.fileKey], at |-> clock])
            /\ event' = event
    /\ UNCHANGED << files, storage, clock >>

\* GET /f/:fileKey and GET /a/:appID/:fileKey up to the await of
\* getDownloadObject: the appID, findUnique and the signature.
CdnFind(c) == CdnHandler(c, CdnFacts[c])

\* The rest of a CDN handler: exists(), the headers from the record found, the
\* bytes.
CdnServe(r) ==
    /\ BagIn(r, inflight) /\ r.op = "cdn"
    /\ Resume(r, {})
    /\ event' = IF r.key \notin DOMAIN storage
                THEN [CdnError(r.case, 404, r.file.acl, << "File not in storage" >>)
                        EXCEPT !.at = r.at]
                ELSE [op |-> "cdn", code |-> 200, case |-> r.case, acl |-> r.file.acl,
                      at |-> r.at,
                      contentType |-> r.file.type,
                      disposition |-> r.file.contentDisposition,
                      filename |-> r.file.name,
                      cacheControl |-> IF r.file.acl = "PRIVATE" THEN privateNoStore
                                       ELSE publicImmutable,
                      body |-> storage[r.key], error |-> Null]
    /\ UNCHANGED << files, storage, clock, started >>

\* The handler of requestFileAccess, signed what getSignedUrl gives for the
\* request: findFirstOrThrow and getSignedUrl can throw.
AccessHandler(refusal, body, signed) ==
    LET found == body.fileKey \in DOMAIN files
        isPrivate == found /\ files[body.fileKey].acl = "PRIVATE"
        code == IF refusal # 0 THEN refusal
                ELSE IF ~found \/ (isPrivate /\ ~signed.ok) THEN 500 ELSE 200
    IN  /\ Receive
        /\ event' = [op |-> "requestFileAccess", code |-> code, key |-> body.fileKey,
                     expiresIn |-> body.expiresIn, at |-> clock,
                     url |-> IF code # 200 THEN Null
                             ELSE IF isPrivate THEN signed.url
                             ELSE getPublicUrl(BASE_URL, body.fileKey)]
        /\ UNCHANGED << files, storage, clock, inflight >>

\* POST /v6/requestFileAccess
RequestFileAccess(authHeader, body) ==
    AccessHandler(AuthCodes[authHeader], body, SignedUrls[body, clock])

\* generateFileKey(): any key.
generateFileKey == Keys

\* The bodies of the prepareUpload requests of the model, after the schema's
\* default of expiresIn: one that gives only what it must, one that gives all,
\* and the first with an expiresIn of zero, below zero and above seven days,
\* which z.number() accepts.
PrepareBodies ==
    {[fileName |-> << "a" >>, fileSize |-> 7, fileType |-> << "t" >>, acl |-> publicRead,
      contentDisposition |-> attachment, customId |-> << "c" >>, expiresIn |-> 1]}
    \cup {[fileName |-> << "a" >>, fileSize |-> 7, fileType |-> Null, acl |-> Null,
            contentDisposition |-> Null, customId |-> Null, expiresIn |-> ttl] :
              ttl \in {3600, 0, -1, MaxSignedUrlTtl + 1}}

\* The answer of a handler that issues an upload URL, url what
\* generateSignedUploadUrl gave: a throw is answered 500.  The event keeps the
\* expiresIn and the customId of the request.
IssueHandler(op, refusal, key, expiresIn, customId, url) ==
    LET code == IF refusal # 0 THEN refusal ELSE IF url.ok THEN 200 ELSE 500
    IN  /\ Receive
        /\ event' = [op |-> op, code |-> code, key |-> key, at |-> clock,
                     expiresIn |-> expiresIn, customId |-> customId,
                     url |-> IF code = 200 THEN url.url ELSE Null]
        /\ UNCHANGED << files, storage, clock, inflight >>

\* POST /v7/prepareUpload
PrepareUpload(authHeader, body, key) ==
    IssueHandler("prepareUpload", AuthCodes[authHeader], key, body.expiresIn, body.customId,
                 generateSignedUploadUrl(
                     << << << "k", "e", "y" >>, key >>,
                        << FileNameParam, body.fileName >>,
                        << FileSizeParam, NumberToString(body.fileSize) >>,
                        << FileTypeParam, OrElse(body.fileType, octetStream) >>,
                        << AclParam, OrElse(body.acl, private) >>,
                        << ContentDispositionParam,
                           OrElse(body.contentDisposition, inline) >> >>,
                     body.expiresIn, DateNow(clock)))

\* The bodies of the uploadFiles requests of the model: one file each, with a
\* customId or without.
UploadBodies ==
    [file : [name : {<< "a" >>}, size : {7}, type : {<< "t" >>}, customId : {Null, << "c" >>}],
     acl : {Null, publicRead}, contentDisposition : {attachment}]

\* POST /v6/uploadFiles
UploadFiles(authHeader, body, key) ==
    IssueHandler("uploadFiles", AuthCodes[authHeader], key, 3600, body.file.customId,
                 generateSignedUploadUrl(
                     << << << "k", "e", "y" >>, key >>,
                        << FileNameParam, body.file.name >>,
                        << FileSizeParam, NumberToString(body.file.size) >>,
                        << FileTypeParam, body.file.type >>,
                        << AclParam, IF body.acl = publicRead THEN publicRead ELSE private >>,
                        << ContentDispositionParam,
                           IF body.contentDisposition = attachment THEN attachment
                           ELSE inline >> >>,
                     3600, DateNow(clock)))

\* The bodies of the listFiles requests of the model: ListFilesRequestSchema
\* takes every number for limit and for offset.
ListBodies == [limit : {-1, 0, 1, 2}, offset : {-1, 0, 1, 2}]

\* The orders of the records of a table by createdAt descending; the order among
\* the records of one createdAt is the database's.
OrderByCreatedAtDesc(store) ==
    {s \in [1 .. Cardinality(DOMAIN store) -> DOMAIN store] :
        /\ \A i, j \in DOMAIN s : i # j => s[i] # s[j]
        /\ \A i, j \in DOMAIN s : i < j => store[s[i]].createdAt >= store[s[j]].createdAt}

\* prisma.file.findMany({take, skip, orderBy}) on an order of the keys: a take
\* below zero counts from the end of the list. The keys of the records found.
FindMany(order, take, skip) ==
    LET n == Len(order)
        first == IF take >= 0 THEN skip + 1
                 ELSE IF n - skip + take + 1 > 1 THEN n - skip + take + 1 ELSE 1
        last == IF take >= 0 THEN (IF skip + take < n THEN skip + take ELSE n) ELSE n - skip
    IN  SubSeq(order, first, last)

\* formattedFiles: the fields of the answer of listFiles for the records found.
statusMap ==
    [DELETION_PENDING |-> "Deletion Pending", FAILED |-> "Failed", UPLOADED |-> "Uploaded",
     UPLOADING |-> "Uploading"]

formattedFiles(store, found) ==
    [i \in DOMAIN found |->
        [key |-> found[i], customId |-> store[found[i]].customId, name |-> store[found[i]].name,
         size |-> store[found[i]].size, status |-> statusMap[store[found[i]].status],
         uploadedAt |-> IF store[found[i]].uploadedAt # NoDate THEN store[found[i]].uploadedAt
                        ELSE store[found[i]].createdAt]]

\* The handler of listFiles behind the middleware, up to the first of the two
\* queries of Promise.all that the database runs: findMany on the order it
\* gives, or count. A skip below zero is refused by the client of the database.
ListHandler(refusal, body, firstQuery, order) ==
    /\ Receive
    /\ IF refusal = 0 /\ body.offset >= 0
       THEN /\ Suspend([op |-> "listFiles", pc |-> firstQuery, limit |-> body.limit,
                        offset |-> body.offset,
                        files |-> IF firstQuery = "findMany"
                                  THEN formattedFiles(files, FindMany(order, body.limit, body.offset))
                                  ELSE << >>,
                        total |-> IF firstQuery = "count" THEN Cardinality(DOMAIN files) ELSE 0])
            /\ event' = event
       ELSE /\ inflight' = inflight
            /\ event' = [op |-> "listFiles", code |-> IF refusal # 0 THEN refusal ELSE 500]
    /\ UNCHANGED << files, storage, clock >>

\* POST /v6/listFiles up to the first query.
ListQuery(authHeader, body, firstQuery, order) ==
    ListHandler(AuthCodes[authHeader], body, firstQuery, order)

\* The other query of Promise.all and the answer of listFiles.
ListFinish(r, order) ==
    LET found == IF r.pc = "findMany" THEN r.files
                 ELSE formattedFiles(files, FindMany(order, r.limit, r.offset))
        total == IF r.pc = "count" THEN r.total ELSE Cardinality(DOMAIN files)
    IN  /\ BagIn(r, inflight) /\ r.op = "listFiles"
        /\ Resume(r, {})
        /\ event' = [op |-> "listFiles", code |-> 200, limit |-> r.limit, offset |-> r.offset,
                     hasMore |-> r.offset + Len(found) < total, files |-> found]
        /\ UNCHANGED << files, storage, clock, started >>

\* The handler of pollUpload behind the middleware: findUnique, 404 without a
\* record, else "done" and the details of the file when the status is
\* UPLOADED, "still working" and null when it is not.
PollHandler(refusal, fileKey) ==
    LET found == fileKey \in DOMAIN files
        isDone == found /\ files[fileKey].status = "UPLOADED"
    IN  /\ Receive
        /\ event' = [op |-> "pollUpload",
                     code |-> IF refusal # 0 THEN refusal ELSE IF ~found THEN 404 ELSE 200,
                     key |-> fileKey,
                     status |-> IF refusal # 0 \/ ~found THEN "none"
                                ELSE IF isDone THEN "done" ELSE "still working",
                     file |-> IF refusal = 0 /\ isDone
                              THEN [fileKey |-> fileKey,
                                    fileName |-> files[fileKey].name,
                                    fileSize |-> files[fileKey].size,
                                    fileType |-> files[fileKey].type,
                                    fileUrl |-> getPublicUrl(BASE_URL, fileKey),
                                    customId |-> files[fileKey].customId]
                              ELSE NULL]
        /\ UNCHANGED << files, storage, clock, inflight >>

\* GET /v6/pollUpload/:fileKey
PollUpload(authHeader, fileKey) == PollHandler(AuthCodes[authHeader], fileKey)

vars == << files, storage, clock, inflight, event, started >>

Init ==
    /\ files = NoFiles
    /\ storage = NoBytes
    /\ clock = 0
    /\ inflight = EmptyBag
    /\ event = [op |-> "none", code |-> 0]
    /\ started = 0

\* The requests between two awaits.
Suspended == BagToSet(inflight)

\* The ingest endpoints.
Ingest ==
    \/ \E c \in IngestCases : PreflightGet(c)
    \/ \E c \in IngestCases, body \in Bodies : PutBegin(c, body)
    \/ \E r \in Suspended : PutUpload(r)
    \/ \E r \in Suspended : PutFinish(r)

\* deleteFiles, step by step.
DeleteFiles ==
    \/ \E h \in AuthHeaders, body \in DeleteBodies : DeleteFind(h, body)
    \/ \E r \in Suspended : \E k \in Keys, fails \in BOOLEAN : DeleteUnlink(r, k, fails)
    \/ \E r \in Suspended : DeleteFinish(r)

\* The CDN endpoints, step by step.
Cdn ==
    \/ \E c \in CdnCases : CdnFind(c)
    \/ \E r \in Suspended : CdnServe(r)

\* The requests that write the File table: the ingest endpoints, the callbacks
\* and the management of records.
Next ==
    \/ Ingest
    \/ \E h \in AuthHeaders, k \in Keys : CompleteMultipart(h, k)
    \/ \E h \in AuthHeaders, k \in Keys : FailureCallback(h, k)
    \/ \E h \in AuthHeaders, u \in RenameUpdates : RenameFiles(h, u)
    \/ \E h \in AuthHeaders, u \in AclUpdates : UpdateACL(h, u)
    \/ \E body \in RouteMetadataBodies : RouteMetadata(body)
    \/ DeleteFiles
    \/ Tick

Spec == Init /\ [][Next]_vars

\* The requests that read files, among the requests that change what they read.
NextRead ==
    \/ Ingest
    \/ \E h \in AuthHeaders, u \in AclUpdates : UpdateACL(h, u)
    \/ DeleteFiles
    \/ Cdn
    \/ Tick

SpecRead == Init /\ [][NextRead]_vars

\* The requests that issue upload URLs, and the ingest endpoints the URLs are for.
NextIssue ==
    \/ \E h \in AuthHeaders, body \in PrepareBodies, k \in generateFileKey :
          PrepareUpload(h, body, k)
    \/ \E h \in AuthHeaders, body \in UploadBodies, k \in generateFileKey :
          UploadFiles(h, body, k)
    \/ \E h \in AuthHeaders, body \in AccessBodies : RequestFileAccess(h, body)
    \/ Ingest
    \/ Tick

SpecIssue == Init /\ [][NextIssue]_vars

(***************************************************************************)
(* Signing and verifying, on their own                                      *)
(***************************************************************************)

\* The requests for a signed read URL: a key, a TTL in seconds and the secret
\* of the adapter.
ReadInputs ==
    [key : Keys, ttl : {0, 1, 2, MaxSignedUrlTtl, MaxSignedUrlTtl + 1},
     secret : {API_SECRET, OtherSecret}]

\* The upload URLs the SDK signs: a key, a declaration and the secret.
UploadInputs == [key : Keys, decl : {"full", "none"}, secret : {API_SECRET, OtherSecret}]

\* The values of expires of the URLs made by hand: none, empty, no number, a
\* number and more, numbers.
CraftedExpires ==
    {Null, << >>, << "a", "b", "c" >>, << "1", "0", "0", "0", "x" >>,
     << "9", "9", "9" >>, << "1", "0", "0", "0" >>}

NoMutation == [pos |-> 0, old |-> "", new |-> ""]

\* A signed URL as the steps below keep it: the URL, the URL as it was signed,
\* who signed it and how.
Signed(kind, url, secret, expires, genuine) ==
    [op |-> "sign", kind |-> kind, url |-> url, orig |-> url, secret |-> secret,
     expires |-> expires, genuine |-> genuine, mutation |-> NoMutation]

\* A signed read URL is kept, or the refusal of getSignedUrl.
KeepRead(i, signedUrl) ==
    /\ event.op = "none"
    /\ event' = IF signedUrl.ok
                THEN Signed("read", signedUrl.url, i.secret,
                            NumberToString(DateNow(clock) + i.ttl * 1000), TRUE)
                ELSE [op |-> "refused", ttl |-> i.ttl]
    /\ UNCHANGED << files, storage, clock, inflight, started >>

\* storageAdapter.getSignedUrl(key, ttl) of an adapter that has the secret.
SignRead(i) == KeepRead(i, getSignedUrl(BASE_URL, i.secret, i.key, i.ttl, DateNow(clock)))

\* The SDK signs an upload URL that expires at 1000 ms.
SignUpload(i) ==
    /\ event.op = "none"
    /\ event' = Signed("upload",
                       SdkUploadUrl(i.key, IF i.decl = "full" THEN DeclaredFull
                                           ELSE DeclaredNone, 1000, i.secret),
                       i.secret, NumberToString(1000), TRUE)
    /\ UNCHANGED << files, storage, clock, inflight, started >>

\* The read URL of k1 with the expires given (none when expires is null).
CraftedBase(expires) ==
    IF expires = Null THEN ParseUrl(BASE_URL \o << "/", "f", "/" >> \o k1)
    ELSE SearchParamsAppend(ParseUrl(BASE_URL \o << "/", "f", "/" >> \o k1),
                            ExpiresName, expires)

\* A URL made by hand: the expires given, and the signature of the URL under the
\* server's secret (genuine) or a signature of zeros.
Craft(expires, genuine) ==
    /\ event.op = "none"
    /\ event' = Signed("crafted",
                       IF genuine THEN SignReadUrl(CraftedBase(expires), API_SECRET)
                       ELSE AppendSignature(CraftedBase(expires),
                                            signaturePrefix \o toHex(<< 0, 0, 0, 0 >>)),
                       API_SECRET, expires, genuine)
    /\ UNCHANGED << files, storage, clock, inflight, started >>

\* The other case of a letter.
FlipCase(c) ==
    IF IsUpper(c) THEN ToLowerChar(c)
    ELSE IF IsLower(c) THEN CharOf(CharCode(c) - 32)
    ELSE c

\* The characters a position of a URL is changed to: the other case of its
\* letter, and these.
Replacements(c) ==
    ({FlipCase(c), "0", "x", "&", "=", "#", "%", "+", "/", "\\", "?", ":"}) \ {c}

\* The signed URLs whose characters are changed: those of k1 signed with the
\* server's secret, a read URL of one second made at time 0 and an upload URL
\* that declares nothing.
MutableUrls ==
    {getSignedUrl(BASE_URL, API_SECRET, k1, 1, 0).url,
     SdkUploadUrl(k1, DeclaredNone, 1000, API_SECRET)}

Mutable(e) == e.op = "sign" /\ e.mutation = NoMutation /\ e.url \in MutableUrls

\* One character of the signed URL is changed.
Mutate(pos, c) ==
    /\ event' = [event EXCEPT !.url = [@ EXCEPT ![pos] = c],
                              !.mutation = [pos |-> pos, old |-> event.url[pos], new |-> c]]
    /\ UNCHANGED << files, storage, clock, inflight, started >>

\* Both verifiers are applied to the URL with a secret, now.
Verify(secret) ==
    /\ event.op = "sign"
    /\ event' = [op |-> "verify", of |-> event, verifier |-> secret, now |-> DateNow(clock),
                 cdn |-> verifyCdnSignedUrl(event.url, secret, DateNow(clock)),
                 sdk |-> verifySdkSignature(event.url, secret)]
    /\ UNCHANGED << files, storage, clock, inflight, started >>

NextSig ==
    \/ \E i \in ReadInputs : SignRead(i)
    \/ \E i \in UploadInputs : SignUpload(i)
    \/ \E expires \in CraftedExpires, genuine \in BOOLEAN : Craft(expires, genuine)
    \/ /\ Mutable(event)
       /\ \E pos \in 1..Len(event.url) : \E c \in Replacements(event.url[pos]) :
             Mutate(pos, c)
    \/ \E secret \in {API_SECRET, OtherSecret} : Verify(secret)
    \/ event.op # "verify" /\ Tick

SpecSig == Init /\ [][NextSig]_vars

(***************************************************************************)
(* Properties                                                               *)
(***************************************************************************)

\* The requests a signed URL is sent with: a CDN read of a key on either route,
\* or an ingest request of a key.
ScopeTargets == [endpoint : {"f", "a", "ingest"}, key : Keys]

TargetPath(t) ==
    IF t.endpoint = "f" THEN << "/", "f", "/" >> \o t.key
    ELSE IF t.endpoint = "a" THEN << "/", "a", "/" >> \o APP_ID \o << "/" >> \o t.key
    ELSE << "/" >> \o t.key

\* The query of a signed URL, its expires and its signature, is sent with the
\* path of the request t.
UseOn(t) ==
    /\ event.op = "sign" /\ "target" \notin DOMAIN event
    /\ event' = Merge(event, [url |-> Href([ParseUrl(event.url) EXCEPT !.path = TargetPath(t)]),
                              target |-> t])
    /\ UNCHANGED << files, storage, clock, inflight, started >>

\* Signed URLs, used on the requests they were made for and on others.
NextScope ==
    \/ \E i \in ReadInputs : SignRead(i)
    \/ \E i \in UploadInputs : SignUpload(i)
    \/ \E t \in ScopeTargets : UseOn(t)
    \/ \E secret \in {API_SECRET, OtherSecret} : Verify(secret)
    \/ event.op # "verify" /\ Tick

SpecScope == Init /\ [][NextScope]_vars

\* The updates of renameFiles and updateACL with one entry and with two, by key
\* and by customId.
FrameWheres ==
    {[fileKey |-> k1, customId |-> Null], [fileKey |-> k2, customId |-> Null],
     [fileKey |-> Null, customId |-> << "c" >>]}

FrameRenames ==
    {<< Merge(w, [newName |-> newName]) >> : w \in FrameWheres}
    \cup {<< Merge(w, [newName |-> newName]), Merge(v, [newName |-> << "d" >>]) >> :
             w \in FrameWheres, v \in {[fileKey |-> k1, customId |-> Null]}}

FrameAcls ==
    {<< Merge(w, [acl |-> a]) >> : w \in FrameWheres, a \in {publicRead, private}}
    \cup {<< Merge(w, [acl |-> publicRead]), Merge(v, [acl |-> private]) >> :
             w \in FrameWheres, v \in {[fileKey |-> k2, customId |-> Null]}}

\* The requests that change one field of the records, among the uploads that
\* give the records their other fields and their bytes.
NextFrame ==
    \/ Ingest
    \/ \E h \in AuthHeaders, u \in FrameRenames : RenameFiles(h, u)
    \/ \E h \in AuthHeaders, u \in FrameAcls : UpdateACL(h, u)
    \/ \E body \in RouteMetadataBodies : RouteMetadata(body)

SpecFrame == Init /\ [][NextFrame]_vars

\* The requests that make a record UPLOADED or FAILED, and no deletion.
NextUpload ==
    \/ Ingest
    \/ \E h \in AuthHeaders, k \in Keys : CompleteMultipart(h, k)
    \/ \E h \in AuthHeaders, k \in Keys : FailureCallback(h, k)
    \/ Tick

SpecUpload == Init /\ [][NextUpload]_vars

\* A request of the management API is on its way: the header it carries.
Arrive(h) ==
    /\ started < MaxRequests
    /\ event' = [op |-> "request", header |-> h]
    /\ UNCHANGED << files, storage, clock, inflight, started >>

\* parseApiToken(token) is called.
ParseToken(token) ==
    /\ event' = [op |-> "parseApiToken", token |-> token, result |-> TokenData[token]]
    /\ UNCHANGED << files, storage, clock, inflight, started >>

\* The header of the request on its way, when there is one.
OnItsWay(h) == event.op = "request" /\ event.header = h

\* The request on its way is answered by the management API.
Management ==
    \/ \E h \in TokenHeaders, k \in Keys : OnItsWay(h) /\ CompleteMultipart(h, k)
    \/ \E h \in TokenHeaders, k \in Keys : OnItsWay(h) /\ FailureCallback(h, k)
    \/ \E h \in TokenHeaders, u \in RenameUpdates : OnItsWay(h) /\ RenameFiles(h, u)
    \/ \E h \in TokenHeaders, u \in AclUpdates : OnItsWay(h) /\ UpdateACL(h, u)
    \/ \E h \in TokenHeaders, body \in DeleteBodies : OnItsWay(h) /\ DeleteFind(h, body)
    \/ \E h \in TokenHeaders, body \in AccessBodies : OnItsWay(h) /\ RequestFileAccess(h, body)
    \/ \E h \in TokenHeaders, body \in PrepareBodies, k \in generateFileKey :
          OnItsWay(h) /\ PrepareUpload(h, body, k)
    \/ \E h \in TokenHeaders, body \in UploadBodies, k \in generateFileKey :
          OnItsWay(h) /\ UploadFiles(h, body, k)

\* The guard of the management API on every header and token of the model,
\* among registrations for the handlers to find records.
NextAuth ==
    \/ \E h \in TokenHeaders : Arrive(h)
    \/ Management
    \/ \E r \in Suspended : \E k \in Keys, fails \in BOOLEAN : DeleteUnlink(r, k, fails)
    \/ \E r \in Suspended : DeleteFinish(r)
    \/ \E c \in IngestCases : PreflightGet(c)
    \/ \E token \in Tokens : ParseToken(token)

SpecAuth == Init /\ [][NextAuth]_vars

\* The polls of uploads, among the requests that change what they report.
NextPoll ==
    \/ Ingest
    \/ \E h \in AuthHeaders, k \in Keys : FailureCallback(h, k)
    \/ \E h \in AuthHeaders, k \in Keys : PollUpload(h, k)
    \/ DeleteFiles

SpecPoll == Init /\ [][NextPoll]_vars

\* listFiles, step by step.
ListFiles ==
    \/ \E h \in AuthHeaders, body \in ListBodies, q \in {"findMany", "count"} :
          \E order \in OrderByCreatedAtDesc(files) : ListQuery(h, body, q, order)
    \/ \E r \in Suspended : \E order \in OrderByCreatedAtDesc(files) : ListFinish(r, order)

\* The requests that list the records, among the requests that create them and
\* that give them an uploadedAt.
NextList ==
    \/ \E c \in IngestCases : PreflightGet(c)
    \/ ListFiles
    \/ \E h \in AuthHeaders, k \in Keys : CompleteMultipart(h, k)
    \/ Tick

SpecList == Init /\ [][NextList]_vars

\* The requests to the endpoints behind the Signed-URL guard: signed with the
\* server's secret, signed with another secret, with no signature, and with a
\* signature that is no hex.
GuardIngestCases ==
    [key : {k1}, decl : {"full", "none"}, signer : {"server", "other", "unsigned", "malformed"}]

GuardIngestUrl(c) ==
    IF c.signer # "malformed" THEN IngestUrl(c)
    ELSE AppendSignature(ParseUrl(IngestUrl([c EXCEPT !.signer = "unsigned"])),
                         signaturePrefix \o << "z", "z" >>)

GuardIngestFacts == [c \in GuardIngestCases |-> IngestFactsOf(GuardIngestUrl(c))] @@ << >>

GuardCdnCases ==
    [route : {<< "f" >>, << "a", APP_ID >>}, key : {k1},
     signer : {"server", "other", "unsigned", "malformed"}]

GuardCdnUrl(c) ==
    IF c.signer # "malformed" THEN CdnUrl(c)
    ELSE AppendSignature(SearchParamsAppend(ParseUrl(CdnUrl([c EXCEPT !.signer = "unsigned"])),
                                            ExpiresName, NumberToString(1000)),
                         << "z", "z" >>)

GuardCdnFacts == [c \in GuardCdnCases |-> CdnRequestFacts(GuardCdnUrl(c))] @@ << >>

\* The endpoints behind the Signed-URL guard, and the time that makes a signed
\* URL expire.
NextGuard ==
    \/ \E c \in GuardIngestCases : PreflightHandler(c, GuardIngestFacts[c])
    \/ \E c \in GuardIngestCases, body \in Bodies : PutHandler(c, body, GuardIngestFacts[c])
    \/ \E r \in Suspended : PutUpload(r)
    \/ \E r \in Suspended : PutFinish(r)
    \/ \E c \in GuardCdnCases : CdnHandler(c, GuardCdnFacts[c])
    \/ \E r \in Suspended : CdnServe(r)
    \/ Tick

SpecGuard == Init /\ [][NextGuard]_vars

\* The ingest endpoints on their own, requests for one key running at once.
NextIngest ==
    \/ Ingest
    \/ Tick

SpecIngest == Init /\ [][NextIngest]_vars

\* The requests that write the File table, each with the header it carries: the
\* management API answers the request on its way, POST /route-metadata is
\* outside /v6 and /v7 and reads no header, the ingest endpoints read the URL.
NextWrite ==
    \/ \E h \in AuthHeaders : Arrive(h)
    \/ \E h \in AuthHeaders, k \in Keys : OnItsWay(h) /\ CompleteMultipart(h, k)
    \/ \E h \in AuthHeaders, k \in Keys : OnItsWay(h) /\ FailureCallback(h, k)
    \/ \E h \in AuthHeaders, u \in RenameUpdates : OnItsWay(h) /\ RenameFiles(h, u)
    \/ \E h \in AuthHeaders, u \in AclUpdates : OnItsWay(h) /\ UpdateACL(h, u)
    \/ \E h \in AuthHeaders, body \in RouteMetadataBodies : OnItsWay(h) /\ RouteMetadata(body)
    \/ \E h \in AuthHeaders, body \in DeleteBodies : OnItsWay(h) /\ DeleteFind(h, body)
    \/ \E r \in Suspended : \E k \in Keys, fails \in BOOLEAN : DeleteUnlink(r, k, fails)
    \/ \E r \in Suspended : DeleteFinish(r)
    \/ Ingest

SpecWrite == Init /\ [][NextWrite]_vars

\* The upload sessions of the model: the declaration signed with the URL is the
\* full one, none, or the full one with a file name that holds a percent sign.
SessionCases == [key : {k1}, decl : {"full", "none", "escaped"}, signer : {"server", "other"}]

SessionDeclared(decl) ==
    IF decl = "full" THEN DeclaredFull
    ELSE IF decl = "none" THEN DeclaredNone
    ELSE [DeclaredFull EXCEPT ![1] = << FileNameParam, << "%", "4", "1" >> >>]

SessionUrl(c) ==
    SdkUploadUrl(c.key, SessionDeclared(c.decl), 1000,
                 IF c.signer = "server" THEN API_SECRET ELSE OtherSecret)

SessionFacts == [c \in SessionCases |-> IngestFactsOf(SessionUrl(c))] @@ << >>

\* The requests that issue upload sessions, and the ingest requests of the
\* sessions of the model.
NextSession ==
    \/ \E h \in AuthHeaders, body \in PrepareBodies, k \in generateFileKey :
          PrepareUpload(h, body, k)
    \/ \E h \in AuthHeaders, body \in UploadBodies, k \in generateFileKey :
          UploadFiles(h, body, k)
    \/ \E c \in SessionCases : PreflightHandler(c, SessionFacts[c])
    \/ \E c \in SessionCases, body \in Bodies : PutHandler(c, body, SessionFacts[c])
    \/ \E r \in Suspended : PutUpload(r)
    \/ \E r \in Suspended : PutFinish(r)

SpecSession == Init /\ [][NextSession]_vars

\* Is the step a registration: a pre-flight GET or the start of a PUT that
\* reached its upsert?
Registers(e) ==
    \/ e.op = "preflight" /\ e.code = 200
    \/ e.op = "putBegin" /\ e.code = 0

\* C1: an ingest request (pre-flight GET or PUT) whose expires is earlier than
\* the time of verification is rejected by the guard, before any write, even
\* when its signature is correct.
C1_LateIngestRejected ==
    (event.op \in {"preflight", "putBegin"} /\ event.late) => event.code = 403

\* C2: once the status of a record is UPLOADED or FAILED no step writes another
\* status to it; the record can only be removed.
C2_TerminalStatusKept ==
    [][\A k \in DOMAIN files \cap DOMAIN files' :
          files[k].status \in {"UPLOADED", "FAILED"} => files'[k].status = files[k].status]_vars

\* C3: in every reachable state every record has a fileHash if and only if its
\* status is UPLOADED.
C3_HashIffUploaded ==
    \A k \in DOMAIN files : (files[k].fileHash # Null) <=> (files[k].status = "UPLOADED")

\* C4: the end of a PUT, or a completeMultipart, on a record that is FAILED
\* leaves the status, the fileHash and the uploadedAt of the record as they are.
C4_FailedRecordKept ==
    [][\A k \in DOMAIN files \cap DOMAIN files' :
          (/\ files[k].status = "FAILED"
           /\ event'.op \in {"putDone", "completeMultipart"}
           /\ event'.key = k)
          => /\ files'[k].status = files[k].status
             /\ files'[k].fileHash = files[k].fileHash
             /\ files'[k].uploadedAt = files[k].uploadedAt]_vars

\* Has the request of a CDN answer a signature of the server's secret that has
\* not expired when it is verified? (The URLs of the CDN requests expire at
\* 1000 ms.)
Authorised(e) == e.case.signer = "server" /\ DateNow(e.at) <= 1000

\* C5: on both CDN endpoints, the bytes of a record found PRIVATE are streamed
\* only to a request with a valid signature that has not expired, and with
\* Cache-Control "private, no-store"; without one the answer is 403 and has no
\* bytes; a record found PUBLIC_READ is served whatever the signature is.
C5_PrivateReadsNeedSignature ==
    event.op = "cdn" =>
        /\ (event.acl = "PRIVATE" /\ event.code = 200)
           => (Authorised(event) /\ event.cacheControl = privateNoStore)
        /\ (event.acl = "PRIVATE" /\ ~Authorised(event))
           => (event.code = 403 /\ event.body = NoBody)
        /\ (event.acl = "PRIVATE" /\ Authorised(event))
           => (event.code \in {200, 404} /\ (event.code = 200 <=> event.body # NoBody))
        /\ event.acl = "PUBLIC_READ"
           => (event.code \in {200, 404} /\ (event.code = 200 <=> event.body # NoBody))

\* The bytes of a PRIVATE record were streamed to a request on the /a/ route
\* with a valid signature.
C5_Witness ==
    /\ event.op = "cdn" /\ event.acl = "PRIVATE" /\ event.code = 200
    /\ event.case.route[1] = "a" /\ event.body \in Bodies
    /\ event.cacheControl = privateNoStore

\* Is s one decimal number and nothing else?
Numeric(s) == s # Null /\ s # << >> /\ \A i \in 1..Len(s) : IsDigit(s[i])

\* C6: verifyCdnSignedUrl rejects every URL whose expires is absent, is not
\* numeric or is less than the time, whatever the signature is, and accepts a
\* URL whose expires is the time and whose signature is correct.
C6_BadExpiresRejected ==
    (event.op = "verify" /\ event.of.kind = "crafted") =>
        /\ (\/ ~Numeric(event.of.expires)
            \/ DigitsValue(event.of.expires) < event.now) => ~event.cdn
        /\ (/\ Numeric(event.of.expires)
            /\ DigitsValue(event.of.expires) = event.now
            /\ event.of.genuine /\ event.verifier = API_SECRET) => event.cdn

\* C7: prepareUpload and uploadFiles, once authenticated, succeed and return an
\* upload URL that the guard of the ingest endpoints accepts.
C7_IssuingSucceeds ==
    (event.op \in {"prepareUpload", "uploadFiles"} /\ event.code \notin {401, 403}) =>
        /\ event.code = 200
        /\ verifySdkSignature(event.url, API_SECRET) = "true"

\* The URL as it is written up to the "&" before its last parameter.
BeforeLastParam(url) == SubSeq(url, 1, LastIndexOf(url, "&") - 1)

\* Is the verified URL a read URL as getSignedUrl made it?
ReadUrlVerified(e) == e.op = "verify" /\ e.of.kind = "read" /\ e.of.mutation = NoMutation

\* C8: a URL that getSignedUrl made is accepted by verifyCdnSignedUrl with the
\* secret that signed it at every time up to its expires; what is left of the
\* URL when its signature is deleted is the URL as it was written before the
\* signature was appended.
C8_ReadUrlRoundTrip ==
    ReadUrlVerified(event) =>
        /\ (event.verifier = event.of.secret
            /\ event.now <= DigitsValue(event.of.expires)) => event.cdn
        /\ Href(SearchParamsDelete(ParseUrl(event.of.url), SignatureName))
           = BeforeLastParam(event.of.url)

\* A read URL signed with a secret was accepted with that secret at the very
\* time it expires.
C8_Witness ==
    /\ ReadUrlVerified(event) /\ event.verifier = event.of.secret
    /\ event.now = DigitsValue(event.of.expires) /\ event.now > 0
    /\ event.cdn

\* Is the verified URL one that was signed (not made by hand)?
SignedUrlVerified(e) == e.op = "verify" /\ e.of.kind \in {"read", "upload"}

SignatureStart(url) == LastIndexOf(url, "&") + Len(SignatureName) + 2

\* A change of the case of a letter.
CaseOnly(m) == m.old # m.new /\ ToLowerChar(m.old) = ToLowerChar(m.new)

\* The changes of one character that leave what both verifiers compare as it
\* was: the case of a letter of the scheme or of the host, of the hex digit of
\* the escape of "=" in the signature, of a hex digit of the digest; a "\" for
\* a "/" before the query.
Harmless(url, m) ==
    \/ /\ CaseOnly(m)
       /\ \/ m.pos <= Len(BASE_URL)
          \/ m.pos >= SignatureStart(url) + Len(signaturePrefix) + 1
    \/ /\ m.old = "/" /\ m.new = "\\"
       /\ m.pos < IndexOf(url, "?")

\* The changes that verifyCdnSignedUrl does not see besides, as it reads the
\* digest after the last "=" of the signature: a character of the name of the
\* algorithm, that neither ends the parameter nor the query, and the last
\* character of the escape of "=" when it becomes a "=".
UnseenByCdn(url, m) ==
    \/ /\ m.pos \in SignatureStart(url)..(SignatureStart(url) + Len(signaturePrefix) - 2)
       /\ m.new \notin {"&", "#"}
    \/ /\ m.pos = SignatureStart(url) + Len(signaturePrefix) + 1
       /\ m.new = "="

DeclaredOf(file) ==
    << file.name, file.size, file.type, file.acl, file.contentDisposition >>

\* C10: a registration (pre-flight GET or PUT) of a key that has a record
\* changes no field of any record; a registration of a key that has none creates
\* the record of that key only, with the metadata it declares.
C10_FirstRegistrationWins ==
    [][(started' = started + 1 /\ Registers(event')) =>
          /\ \A k \in DOMAIN files : k \in DOMAIN files' /\ files'[k] = files[k]
          /\ DOMAIN files' = DOMAIN files \cup {event'.key}
          /\ (event'.key \notin DOMAIN files /\ event'.case.decl = "full")
             => /\ DeclaredOf(files'[event'.key])
                   = << << "a" >>, 7, << "t" >>, "PUBLIC_READ", "ATTACHMENT" >>
                /\ files'[event'.key].status = "UPLOADING"]_vars

\* A registration that declares metadata reached a record that was registered
\* first with none, and the record kept what it had.
C10_Witness ==
    /\ Registers(event) /\ event.case.decl = "full"
    /\ event.key \in DOMAIN files
    /\ files[event.key].size = 0 /\ files[event.key].type = octetStream
    /\ files[event.key].acl = "PRIVATE"

\* The requests of PUT /:fileKey that are at the given await for the next step
\* to take one of them on.
PutAt(pc) == {r \in Suspended : r.op = "put" /\ r.pc = pc}

\* The step is the write of the bytes of the PUT r.
WritesBytes(r) == inflight' = (inflight (-) SetToBag({r})) (+) SetToBag({[r EXCEPT !.pc = "update"]})

\* The step is the end of the PUT r: its update and its answer.
Completes(r) ==
    /\ inflight' = inflight (-) SetToBag({r})
    /\ event'.op = "putDone" /\ event'.key = r.key

\* C11: a PUT that carries bytes and completes on a record that is UPLOADED
\* writes the hash of its bytes and the time of its completion to the record,
\* and the status of the record is UPLOADED before and after each step of the
\* PUT: the write of the bytes changes no record and the update leaves the
\* status UPLOADED.
C11_SecondPutReplacesHash ==
    [][/\ \A r \in PutAt("upload") :
             WritesBytes(r) /\ r.key \in DOMAIN files /\ files[r.key].status = "UPLOADED"
                => files' = files
       /\ \A r \in PutAt("update") :
             Completes(r) /\ r.key \in DOMAIN files /\ files[r.key].status = "UPLOADED"
                => /\ event'.code = 200
                   /\ files'[r.key] = [files[r.key] EXCEPT !.status = "UPLOADED",
                                                           !.fileHash = Sha256Hex(r.body),
                                                           !.uploadedAt = DateNow(clock)]
                   /\ \A k \in DOMAIN files \ {r.key} : files'[k] = files[k]]_vars

\* A second PUT completed on an UPLOADED record with other bytes, later than the
\* first.
C11_Witness ==
    /\ event.op = "putDone" /\ event.code = 200
    /\ event.before.status = "UPLOADED"
    /\ event.before.fileHash # files[event.key].fileHash
    /\ files[event.key].status = "UPLOADED"
    /\ files[event.key].uploadedAt = DateNow(clock) /\ clock > 0
    /\ storage[event.key] \in Bodies
    /\ files[event.key].fileHash = Sha256Hex(storage[event.key])

\* The step is a request of failureCallback, answered: of the steps that receive
\* a request and suspend nothing, the one whose answer is of failureCallback.
FailureCallbackStep ==
    started' = started + 1 /\ inflight' = inflight /\ event'.op = "failureCallback"

\* C12: a failureCallback that the guard lets through, for a key that has a
\* record, is answered 200 and changes of the record only the status, to
\* FAILED; for a key that has no record it is answered 500 and the table is as
\* it was.  In both cases no other record and no bytes change.
C12_FailureCallbackWritesStatusOnly ==
    [][FailureCallbackStep /\ event'.code \notin {401, 403}
          => /\ storage' = storage
             /\ IF event'.key \in DOMAIN files
                THEN /\ event'.code = 200
                     /\ files' = [files EXCEPT ![event'.key].status = "FAILED"]
                ELSE /\ event'.code = 500
                     /\ files' = files]_vars

\* A failureCallback reached a record that has a hash and a time of upload, and
\* another one found no record.
C12_Witness ==
    /\ event.op = "failureCallback" /\ event.code = 200
    /\ files[event.key].status = "FAILED"
    /\ files[event.key].fileHash # Null
    /\ files[event.key].uploadedAt # NoDate
    /\ DOMAIN files # {event.key}

\* A failureCallback for a key that has no record, while another key has one.
C12_WitnessAbsent ==
    /\ event.op = "failureCallback" /\ event.code = 500
    /\ event.key \notin DOMAIN files
    /\ files # NoFiles

\* C13: where no deletion is ever requested, a record whose status is UPLOADED
\* has bytes under its key in the storage.
C13_UploadedHasBytes ==
    \A k \in DOMAIN files : files[k].status = "UPLOADED" => k \in DOMAIN storage

\* C14: no step gives the status UPLOADING to a record that has another status;
\* UPLOADING is the status of a record from its creation to its first
\* transition only, whatever is registered for its key afterwards.
C14_NeverUploadingAgain ==
    [][\A k \in DOMAIN files \cap DOMAIN files' :
          files[k].status # "UPLOADING" => files'[k].status # "UPLOADING"]_vars

\* A registration was answered for a key whose record is UPLOADED or FAILED.
C14_Witness ==
    /\ Registers(event)
    /\ event.key \in DOMAIN files
    /\ files[event.key].status \in {"UPLOADED", "FAILED"}

\* The step is the end of the deleteFiles request r: deleteMany and the answer.
DeleteCompletes(r) ==
    /\ r.op = "deleteFiles"
    /\ inflight' = inflight (-) SetToBag({r})
    /\ event'.op = "deleteFiles"

\* The records the request r is for, as the table is.
Requested(r) ==
    {k \in DOMAIN files : IF r.by = "key" THEN k \in r.ids ELSE files[k].customId \in r.ids}

\* C15: the end of a deleteFiles request removes every record that matches the
\* request and no other, and answers 200 with the number of records removed as
\* deletedCount, whether the bytes of a record were deleted, were absent or
\* stayed because the deletion failed.
C15_DeleteRemovesRecords ==
    [][\A r \in Suspended :
          DeleteCompletes(r)
             => /\ event'.code = 200
                /\ DOMAIN files' = DOMAIN files \ Requested(r)
                /\ \A k \in DOMAIN files' : files'[k] = files[k]
                /\ event'.deletedCount = Cardinality(DOMAIN files \ DOMAIN files')]_vars

\* A deleteFiles request for two keys removed two records, one that had no
\* bytes and one whose bytes are still in the storage.
C15_Witness ==
    /\ event.op = "deleteFiles" /\ event.code = 200
    /\ event.deletedCount = 2
    /\ files = NoFiles
    /\ DOMAIN storage = {k1}

\* The step answers the request on its way, or takes it on: the guard and, when
\* the guard lets it through, the handler up to its first await.
Guarded == event.op = "request" /\ started' = started + 1 /\ event'.op # "preflight"

\* The step answers with the code and changes no record, no bytes and no
\* request in progress.
RefusedWith(code) ==
    /\ event'.op # "request" /\ event'.code = code
    /\ UNCHANGED << files, storage, inflight >>

\* C16: a request of the management API whose header is missing is answered
\* 401, one whose token the codec does not parse 401, one whose apiKey is not
\* the secret 403, each with no change of the records, of the storage or of the
\* requests in progress; so the handler runs only for a token that parses and
\* whose apiKey is the secret.
C16_GuardRefuses ==
    [][Guarded =>
          IF Falsy(event.header) THEN RefusedWith(401)
          ELSE IF ~TokenData[event.header].ok THEN RefusedWith(401)
          ELSE IF TokenData[event.header].apiKey # API_SECRET THEN RefusedWith(403)
          ELSE TRUE]_vars

\* What does hold of the guard: without a token that parses and whose apiKey is
\* the secret, the request is answered 401, 403 or 500 and nothing changes.
GuardFailClosed ==
    [][Guarded /\ (Falsy(event.header) \/ ~TokenData[event.header].ok
                   \/ TokenData[event.header].apiKey # API_SECRET)
          => RefusedWith(401) \/ RefusedWith(403) \/ RefusedWith(500)]_vars

\* C18: parseApiToken leaves by a return for every token: no call of it throws.
C18_ParseNeverThrows ==
    event.op = "parseApiToken" => ~event.result.throws

\* The JSON value a token is the base64 of, when it is the base64 of one.
Decoded(token) == JsonParse(Utf8ToString(BufferFromBase64(token)))

\* Has the value decoded from a token the form of a token: an object with a
\* string apiKey?
TokenForm(parsed) ==
    /\ parsed.ok /\ parsed.val.t = "object"
    /\ Property(parsed.val, << "a", "p", "i", "K", "e", "y" >>).t = "string"

\* The result specified for a token that is decoded to parsed.
SpecifiedOf(token, parsed) ==
    IF ~Includes(token, ".") /\ Len(token) <= 64
    THEN [ok |-> TRUE, throws |-> FALSE, appId |-> default, apiKey |-> token]
    ELSE IF TokenForm(parsed)
    THEN [ok |-> TRUE, throws |-> FALSE,
          appId |-> IF Property(parsed.val, << "a", "p", "p", "I", "d" >>).t = "string"
                    THEN Property(parsed.val, << "a", "p", "p", "I", "d" >>).s ELSE default,
          apiKey |-> Property(parsed.val, << "a", "p", "i", "K", "e", "y" >>).s]
    ELSE NoToken

\* The result specified for each token of the model.
Specified == [token \in Tokens |-> SpecifiedOf(token, Decoded(token))] @@ << >>

\* C19: a token without a dot and of at most 64 characters is a raw apiKey of
\* the appId "default"; another token gives the apiKey and the appId of the
\* JSON object it is the base64 of when that object has a string apiKey, the
\* appId "default" when the object has no string appId; every other token is
\* invalid.
C19_TokensClassified ==
    event.op = "parseApiToken" => event.result = Specified[event.token]

\* What does hold of parseApiToken: every token but those that are the base64
\* of the JSON text null is classified as specified, and those throw.
TokensClassifiedButNull ==
    event.op = "parseApiToken"
       => IF Decoded(event.token).ok /\ Decoded(event.token).val = JsonNull
             /\ (Includes(event.token, ".") \/ Len(event.token) > 64)
          THEN event.result.throws
          ELSE event.result = Specified[event.token]

\* C17: a prepareUpload request that the guard lets through and whose
\* expiresIn is zero, below zero or above seven days is answered as a request
\* that is not valid, a client error, and gets no URL.
C17_BadTtlRefused ==
    (/\ event.op = "prepareUpload" /\ event.code \notin {401, 403}
     /\ event.expiresIn \notin 1..MaxSignedUrlTtl)
        => event.code \in 400..499 /\ event.url = Null

\* What does hold of prepareUpload: the answer depends on the key alone, an
\* expiresIn out of range is answered as one in range is.
TtlNotLookedAt ==
    (event.op = "prepareUpload" /\ event.code \notin {401, 403})
        => event.code = (IF ParseUrl(event.key).ok THEN 200 ELSE 500)

\* C20: the record that an ingest request creates for the key of an upload
\* session has the customId the caller gave when the session was asked for.
\* Stated on a registration that follows the request for the session: the
\* record it creates has that customId (by which deleteFiles, renameFiles,
\* updateACL and requestFileAccess then find it).
C20_CustomIdRegistered ==
    [][(/\ event.op \in {"uploadFiles", "prepareUpload"} /\ event.code \notin {401, 403}
        /\ event.customId # Null
        /\ Registers(event') /\ event'.key = event.key
        /\ event.key \notin DOMAIN files)
          => files'[event.key].customId = event.customId]_vars

\* What does hold of customId: no record ever has one, so that no request by
\* customId finds a record.
NoCustomIdStored == \A k \in DOMAIN files : files[k].customId = Null

\* The step is a poll that the guard let through.
Polls ==
    /\ started' = started + 1 /\ inflight' = inflight
    /\ event'.op = "pollUpload" /\ event'.code \notin {401, 403}

\* C21: a poll of a key whose record has had a PUT completed on it (it has a
\* hash, and has not been deleted since) reports "done" with the details of the
\* file; and a poll reports "done" exactly when the status of the record is
\* UPLOADED at the lookup, "still working" for every other status.
C21_PollDoneAfterPut ==
    [][Polls /\ event'.key \in DOMAIN files
          => /\ event'.code = 200
             /\ files[event'.key].fileHash # Null
                   => /\ event'.status = "done"
                      /\ event'.file.fileKey = event'.key
                      /\ event'.file.fileName = files[event'.key].name
             /\ event'.status = "done" <=> files[event'.key].status = "UPLOADED"
             /\ event'.status = "still working" <=> files[event'.key].status # "UPLOADED"]_vars

\* What does hold of pollUpload: the second part of the claim, "done" exactly
\* for a record that is UPLOADED at the lookup.
PollDoneIffUploaded ==
    [][Polls /\ event'.key \in DOMAIN files
          => /\ event'.code = 200
             /\ event'.status = "done" <=> files[event'.key].status = "UPLOADED"
             /\ event'.status = "still working" <=> files[event'.key].status # "UPLOADED"
             /\ event'.status = "done"
                   => event'.file = [fileKey |-> event'.key,
                                     fileName |-> files[event'.key].name,
                                     fileSize |-> files[event'.key].size,
                                     fileType |-> files[event'.key].type,
                                     fileUrl |-> getPublicUrl(BASE_URL, event'.key),
                                     customId |-> files[event'.key].customId]]_vars

\* The step is the end of the listFiles request r: the second query and the
\* answer.
ListCompletes(r) ==
    /\ r.op = "listFiles"
    /\ inflight' = inflight (-) SetToBag({r})
    /\ event'.op = "listFiles" /\ event'.code = 200

\* The keys of the files of an answer of listFiles.
ListedKeys(answer) == [i \in DOMAIN answer.files |-> answer.files[i].key]

\* C22: the answer of listFiles(limit, offset) has at most limit records, they
\* are the records from position offset on of the records ordered by createdAt
\* descending, and hasMore is true exactly when offset plus the number of the
\* records returned is less than the number of all records.
C22_ListPage ==
    [][\A r \in Suspended :
          ListCompletes(r)
             => /\ Len(event'.files) <= r.limit
                /\ \E order \in OrderByCreatedAtDesc(files) :
                      ListedKeys(event') =
                         SubSeq(order, r.offset + 1,
                                IF r.offset + Len(event'.files) < Len(order)
                                THEN r.offset + Len(event'.files) ELSE Len(order))
                /\ event'.hasMore <=> r.offset + Len(event'.files) < Cardinality(DOMAIN files)]_vars

\* The answer e is a refusal of the Signed-URL guard: of the ingest middleware,
\* or of a CDN handler on a PRIVATE record whose URL did not verify.
GuardRefused(e) ==
    \/ e.op \in {"preflight", "putBegin"} /\ GuardIngestFacts[e.case].guard # 0
    \/ e.op = "cdn" /\ e.acl = "PRIVATE" /\ ~GuardCdnFacts[e.case].verified[e.at]

\* The endpoint of an answer.
EndpointOf(e) == IF e.op = "cdn" THEN e.case.route[1] ELSE e.op

\* C23: a request that the Signed-URL guard refuses gets the status code and the
\* body of the refusal before it at the same endpoint, whether the signature of
\* either is missing, malformed, mismatched or expired.
C23_RefusalsUniform ==
    [][(/\ started' = started + 1
        /\ GuardRefused(event) /\ GuardRefused(event')
        /\ EndpointOf(event) = EndpointOf(event'))
          => /\ event'.code = event.code
             /\ event'.body = event.body
             /\ event.op = "cdn" => event'.error = event.error]_vars

\* A correctly signed read URL of a PRIVATE record is refused once it is expired,
\* after another request was answered.
C23_Witness ==
    /\ event.op = "cdn" /\ event.acl = "PRIVATE" /\ event.code = 403
    /\ event.case.signer = "server" /\ started = MaxRequests

\* C24: in every reachable state a record whose status is UPLOADED has the
\* digest of the bytes stored under its key as its fileHash.
C24_HashOfStoredBytes ==
    \A k \in DOMAIN files :
        files[k].status = "UPLOADED"
           => k \in DOMAIN storage /\ files[k].fileHash = Sha256Hex(storage[k])

\* The same of the states in which no request is between two awaits: it fails
\* too, two PUT requests for one key leave the hash of one body on the bytes of
\* the other.
HashOfStoredBytesAtRest == inflight = EmptyBag => C24_HashOfStoredBytes

\* C25: once no request is between two awaits, the storage backend holds bytes
\* for a key only if the record store has a record with that key.
C25_NoOrphanedBytes == inflight = EmptyBag => DOMAIN storage \subseteq DOMAIN files

\* The step takes a request on, and a guard has accepted it: the signature of
\* the URL of an ingest request, or the header of the request on its way to
\* another endpoint.
AcceptedByGuard ==
    /\ started' = started + 1
    /\ IF event'.op \in {"preflight", "putBegin"} THEN IngestFacts[event'.case].guard = 0
       ELSE event.op = "request" /\ AuthCodes[event.header] = 0

\* The step is a later step of a request that was taken on.
Continues ==
    /\ started' = started
    /\ \E r \in Suspended : r.op \in {"put", "deleteFiles"} /\ inflight' # inflight

\* C26: a step that creates, changes or deletes a record belongs to a request
\* that the API-key guard or the Signed-URL guard has accepted: the step that
\* takes the request on writes or suspends only after the guard accepted it,
\* and every other write is a later step of a request taken on.
C26_WritesGuarded ==
    [][/\ (started' = started + 1 /\ (files' # files \/ inflight' # inflight))
             => AcceptedByGuard
       /\ (started' = started /\ files' # files) => Continues]_vars

\* What does hold of the guards: every write but the write of route-metadata is
\* of a request a guard has accepted.
WritesGuardedButRouteMetadata ==
    [][/\ (started' = started + 1 /\ (files' # files \/ inflight' # inflight)
           /\ event'.op # "routeMetadata")
             => AcceptedByGuard
       /\ (started' = started /\ files' # files) => Continues]_vars

\* The value of the parameter name in the declaration that was signed with the
\* URL of the session c, Null when the declaration has none.
SignedValue(c, name) ==
    LET declared == SessionDeclared(c.decl)
    IN  IF \E i \in DOMAIN declared : declared[i][1] = name
        THEN declared[CHOOSE i \in DOMAIN declared : declared[i][1] = name][2]
        ELSE Null

\* The step is an ingest request that creates the record of its key.
RegistersRecord ==
    /\ started' = started + 1
    /\ event'.op \in {"preflight", "putBegin"}
    /\ event'.key \notin DOMAIN files /\ event'.key \in DOMAIN files'

\* C27: a record that an ingest request creates has the key and the declared
\* name, size, type, ACL and content disposition that were signed with the
\* server's secret in the URL of the request, and it is PUBLIC_READ only if the
\* signed x-ut-acl is exactly public-read.
C27_RecordIsWhatWasSigned ==
    [][RegistersRecord =>
          LET c == event'.case
              record == files'[event'.key]
              Same(name, value) == SignedValue(c, name) # Null => value = SignedValue(c, name)
          IN  /\ c.signer = "server" /\ event'.key = c.key
              /\ Same(FileNameParam, record.name)
              /\ Same(FileSizeParam, NumberToString(record.size))
              /\ Same(FileTypeParam, record.type)
              /\ record.acl = "PUBLIC_READ" <=> SignedValue(c, AclParam) = publicRead
              /\ record.contentDisposition = "ATTACHMENT"
                    <=> SignedValue(c, ContentDispositionParam) = attachment]_vars

\* What does hold of the records that the ingest requests create: the URL of the
\* request was signed with the server's secret, the key is the key of the URL,
\* and the ACL and the content disposition are the signed ones.
RecordIsOfSignedUrl ==
    [][RegistersRecord =>
          LET c == event'.case
              record == files'[event'.key]
          IN  /\ c.signer = "server" /\ event'.key = c.key
              /\ record.acl = "PUBLIC_READ" <=> SignedValue(c, AclParam) = publicRead
              /\ record.contentDisposition = "ATTACHMENT"
                    <=> SignedValue(c, ContentDispositionParam) = attachment]_vars

\* The key a signed URL was made for: the last segment of its path.
IssuedKey(e) == PathParams(e.orig)[Len(PathParams(e.orig))]

\* The signed URL e is used on a request of another operation or another key
\* than it was made for.
OutOfScope(e) ==
    \/ (e.kind = "read") # (e.target.endpoint \in {"f", "a"})
    \/ e.target.key # IssuedKey(e)

\* The guard of the endpoint the URL was used on refuses it: verifyCdnSignedUrl
\* of the CDN routes, verifySdkSignature of the ingest endpoints.
RefusedAtTarget(e) ==
    IF e.of.target.endpoint = "ingest" THEN e.sdk # "true" ELSE ~e.cdn

\* The signed URL e was used on a request and the guard gave its verdict.
UsedOn(e) == e.op = "verify" /\ "target" \in DOMAIN e.of

\* C28: a URL signed for reading a key is refused on a CDN read of every other
\* key and on every ingest request; a URL signed for uploading a key is refused
\* on an ingest request of every other key and on every CDN read.
C28_SignatureScoped ==
    (UsedOn(event) /\ OutOfScope(event.of)) => RefusedAtTarget(event)

\* A read URL of k1, signed by the server and not expired, is refused on the
\* read of k2 by the verifier that has the server's secret.
C28_Witness ==
    /\ UsedOn(event) /\ OutOfScope(event.of) /\ RefusedAtTarget(event)
    /\ event.of.kind = "read" /\ IssuedKey(event.of) = k1
    /\ event.of.target = [endpoint |-> "f", key |-> k2]
    /\ event.of.secret = API_SECRET /\ event.verifier = API_SECRET
    /\ event.now <= DigitsValue(event.of.expires)

\* The same URL on the request it was made for is accepted.
UsedInScopeAccepted ==
    /\ UsedOn(event) /\ ~OutOfScope(event.of) /\ ~RefusedAtTarget(event)
    /\ event.of.target.endpoint = "f"

\* The step is the answer of renameFiles, updateACL or route-metadata to a
\* request that was let through.
ChangesField ==
    /\ started' = started + 1
    /\ event'.op \in {"renameFiles", "updateACL", "routeMetadata"} /\ event'.code = 200

\* The fields a request is about.
FieldsOf(op) ==
    IF op = "renameFiles" THEN {"name"}
    ELSE IF op = "updateACL" THEN {"acl"}
    ELSE {"metadata", "callbackUrl", "callbackSlug"}

\* The entries of the request e paired with the records they match.
MatchesOf(e) ==
    IF e.op = "routeMetadata" THEN {<< 1, k >> : k \in DOMAIN files \cap e.body.fileKeys}
    ELSE {<< i, k >> \in (DOMAIN e.updates) \X (DOMAIN files) :
             IF ~Falsy(e.updates[i].fileKey) THEN k = e.updates[i].fileKey
             ELSE files[k].customId = e.updates[i].customId}

====
